---- MODULE Spec2Model ----
(***************************************************************************)
(* A model of the LMArena bridge (src/src/main.py): the bearer-key rate    *)
(* limiter, the chat-completion handler with its conversation-session      *)
(* registry and usage counters, and the decoder of the upstream's          *)
(* line-tagged stream.                                                     *)
(*                                                                         *)
(* Python values are modelled as follows: None is the string "None"; a     *)
(* str that the code slices, strips or concatenates is a sequence of       *)
(* one-character strings; a dict is a record; a list is a sequence.        *)
(* time.time() is the variable now (seconds, non-decreasing).              *)
(***************************************************************************)
EXTENDS Integers, Sequences, FiniteSets, TLC

None == "None"

(***************************************************************************)
(* Bounds of the model.                                                    *)
(***************************************************************************)
\* The clock stops advancing here.
MaxTime == 90
\* Requests served in one behaviour of the chat specification.
MaxReq == 3
\* Requests served in one behaviour of the rate-limiter specification.
MaxRateReq == 6
\* Lines of an upstream response body in the decoder specification.
MaxLines == 3
\* Lines an agent streams into one job.
MaxProxyLines == 2
\* Invocations of get_initial_data().
MaxAcqRuns == 2
\* Entries of the api_keys list.
MaxKeys == 3
\* Calls of a pure function in a row.
MaxCalls == 3
\* Calls of the listing and of the origin and cookie functions in a row.
MaxPureCalls == 2

(***************************************************************************)
(* Program constants.                                                      *)
(***************************************************************************)
\* main.py:133  "current_time - t < 60"
RateWindow == 60
\* main.py:129  key_data.get("rpm", 60)
DefaultRpm == 60
\* main.py:30   0x7000: the version nibble
UuidVersion == 7
\* main.py:31   0x8000000000000000: the two variant bits, binary 10
UuidVariant == 2
\* e.response.text[:200]
DetailBodyLimit == 200

(***************************************************************************)
(* Sample inputs.                                                          *)
(***************************************************************************)
\* The api_keys list of config.json.  rpm None stands for a record without
\* an "rpm" entry.
SampleApiKeys ==
    << [name |-> "one", key |-> "sk1", rpm |-> 1],
       [name |-> "two", key |-> "sk2", rpm |-> 3] >>

KeyStrs == {"sk1", "sk2"}

\* Authorization header values, as sequences of tokens: "Bearer " is the
\* seven-character prefix, " " a whitespace character, anything else a run
\* of non-whitespace characters.
SampleHeaders ==
    { <<"Bearer ", "sk1">>,
      <<"Bearer ", "sk2">>,
      <<"Bearer ", " ", "sk1", " ">>,
      <<"sk1">>,
      <<"Bearer ", "nope">> }

\* Steps of the clock, in seconds.  Sums of these give the ages 29, 30, 58,
\* 59, 60, 87..90: both sides of the 60-second boundary and the boundary.
TickSteps == {29, 30}

(***************************************************************************)
(* str helpers.                                                            *)
(***************************************************************************)
IsSpace(c) == c \in {" ", "\t"}

RECURSIVE LStrip(_)
LStrip(s) ==
    IF s = <<>> THEN <<>>
    ELSE IF IsSpace(Head(s)) THEN LStrip(Tail(s)) ELSE s

RECURSIVE RStrip(_)
RStrip(s) ==
    IF s = <<>> THEN <<>>
    ELSE IF IsSpace(s[Len(s)]) THEN RStrip(SubSeq(s, 1, Len(s) - 1)) ELSE s

\* str.strip()
Strip(s) == RStrip(LStrip(s))

\* key.startswith("Bearer ")
StartsWithBearer(h) == Len(h) >= 1 /\ h[1] = "Bearer "

\* next((k for k in config["api_keys"] if k["key"] == s), None): the index
\* of the first record whose key is the text s, 0 for None.
KeyIndex(keys, s) ==
    IF \E i \in 1..Len(keys) : <<keys[i].key>> = s
    THEN CHOOSE i \in 1..Len(keys) :
             /\ <<keys[i].key>> = s
             /\ \A j \in 1..(i - 1) : <<keys[j].key>> # s
    ELSE 0

\* Python None where a key record is expected.
NoneKey == [name |-> None, key |-> None]

VARIABLES
    now,                \* time.time()
    api_keys,           \* config.json: "api_keys"
    auth_token,         \* config.json: "auth_token"
    usage_stats,        \* config.json: "usage_stats"
    model_usage_stats,  \* the global model_usage_stats
    models,             \* models.json
    api_key_usage,      \* the global api_key_usage
    chat_sessions,      \* the global chat_sessions
    req,                \* the request tasks in flight, by slot
    resp,               \* the last response sent
    nreq,               \* requests served so far
    hist,               \* history variables (not program state), see HistInit
    dec,                \* the decoder's loop, run line by line (SpecDecode)
    proxy,              \* the userscript proxy: liveness, job, handler, agents
    cf_clearance,       \* config.json: "cf_clearance"
    acq,                \* the get_initial_data() tasks, see AcqIdle
    calls,              \* calls of the pure functions: arguments and results
    dashboard_sessions  \* the global dashboard_sessions: the session ids

vars == << now, api_keys, auth_token, usage_stats, model_usage_stats, models,
           api_key_usage, chat_sessions, req, resp, nreq, hist, dec, proxy,
                    cf_clearance, acq, calls, dashboard_sessions >>

(***************************************************************************)
(* rate_limit_api_key: the prefix and key checks, then the sliding window. *)
(***************************************************************************)
PruneKeepsCutoffMutant(ts, t) == SelectSeq(ts, LAMBDA x : t - x <= RateWindow)

\* [t for t in api_key_usage[k] if current_time - t < 60]
Prune(ts, t) == SelectSeq(ts, LAMBDA x : t - x < RateWindow)

\* key_data.get("rpm", 60)
RateLimitOf(key_data) ==
    IF "rpm" \in DOMAIN key_data THEN key_data.rpm ELSE DefaultRpm

RateLimitApiKeyCountsFirstMutant(h, keys, usage, t) ==
    LET api_key_str == Strip(IF StartsWithBearer(h) THEN Tail(h) ELSE h)
        i == KeyIndex(keys, api_key_str)
        key_data == keys[i]
    IN  IF i = 0
        THEN [status |-> 401, key_data |-> NoneKey, usage |-> usage,
              read_config |-> TRUE]
        ELSE LET k == key_data.key
                 kept == Prune(usage[k], t)
             IN  IF ~StartsWithBearer(h)
                 THEN [status |-> 401, key_data |-> NoneKey,
                       usage |-> [usage EXCEPT ![k] = Append(kept, t)],
                       read_config |-> TRUE]
                 ELSE IF Len(kept) >= RateLimitOf(key_data)
                 THEN [status |-> 429, key_data |-> key_data,
                       usage |-> [usage EXCEPT ![k] = kept],
                       read_config |-> TRUE]
                 ELSE [status |-> 200, key_data |-> key_data,
                       usage |-> [usage EXCEPT ![k] = Append(kept, t)],
                       read_config |-> TRUE]

\* The whole dependency on header h at time t: the status it ends with (200
\* when it returns key_data), the key record, and the rate windows after it.
RateLimitApiKey(h, keys, usage, t) ==
    IF ~StartsWithBearer(h)
    THEN [status |-> 401, key_data |-> NoneKey, usage |-> usage,
          read_config |-> FALSE]
    ELSE LET api_key_str == Strip(Tail(h))
             i == KeyIndex(keys, api_key_str)
             key_data == keys[i]
         IN  IF i = 0
             THEN [status |-> 401, key_data |-> NoneKey, usage |-> usage,
                   read_config |-> TRUE]
             ELSE LET k == key_data.key
                      kept == Prune(usage[k], t)
                  IN  IF Len(kept) >= RateLimitOf(key_data)
                      THEN [status |-> 429, key_data |-> key_data,
                            usage |-> [usage EXCEPT ![k] = kept],
                            read_config |-> TRUE]
                      ELSE [status |-> 200, key_data |-> key_data,
                            usage |-> [usage EXCEPT ![k] = Append(kept, t)],
                            read_config |-> TRUE]

(***************************************************************************)
(* The stream decoder (api_chat_completions, the loop over                 *)
(* response.text.splitlines() and the check that follows it).              *)
(*                                                                         *)
(* A raw line is a sequence of tokens: " " is a whitespace character,      *)
(* "a0:", "a3:", "ad:" and "b0:" are three-character prefixes, and any     *)
(* other token is the text of a payload.  A decoded JSON value is a record *)
(* [t, v]: t is its Python type ("str", "int", "dict", "none"), or "error" *)
(* when json.loads raises JSONDecodeError.                                 *)
(***************************************************************************)
PyNone == [t |-> "none", v |-> None]
PyStr(chars) == [t |-> "str", v |-> chars]

\* json.loads of one payload text.
JsonLoadsToken(p) ==
    CASE p = "\"Hi\""   -> PyStr(<<"H", "i">>)
      [] p = "\"Yo \""  -> PyStr(<<"Y", "o", " ">>)
      [] p = "\" \""    -> PyStr(<<" ">>)
      [] p = "\"\""     -> PyStr(<<>>)
      [] p = "\"boom\"" -> PyStr(<<"b", "o", "o", "m">>)
      [] p = "7"        -> [t |-> "int", v |-> 7]
      [] p = "null"     -> PyNone
      [] p = "{\"finishReason\":\"stop\"}" -> [t |-> "dict", v |-> "stop"]
      [] p = "{}"       -> [t |-> "dict", v |-> None]
      [] OTHER          -> [t |-> "error", v |-> None]

\* json.loads(text): whitespace around the value is allowed; no value, or
\* text after the value, is a JSONDecodeError.
JsonLoads(text) ==
    LET s == Strip(text)
    IN  IF Len(s) = 1 THEN JsonLoadsToken(s[1]) ELSE [t |-> "error", v |-> None]

\* bool(value)
Truthy(x) ==
    CASE x.t = "none" -> FALSE
      [] x.t = "str"  -> x.v # <<>>
      [] x.t = "int"  -> x.v # 0
      [] x.t = "dict" -> x.v # None
      [] OTHER        -> FALSE

\* The decoder's locals before the first line.
DecodeStart ==
    [response_text |-> <<>>, finish_reason |-> None, error_message |-> PyNone,
     aborted |-> FALSE]

DecodeLineAppendsErrorMutant(st, raw) ==
    LET line == Strip(raw)
        v == JsonLoads(Tail(line))
    IN  IF line = <<>> THEN st
        ELSE IF line[1] \in {"a0:", "a3:"} /\ v.t = "str"
             THEN [st EXCEPT !.response_text = @ \o v.v]
             ELSE st

DecodeLineKeepsFirstErrorMutant(st, raw) ==
    LET line == Strip(raw)
        v == JsonLoads(Tail(line))
    IN  IF line = <<>> THEN st
        ELSE IF line[1] = "a0:" /\ v.t = "str"
             THEN [st EXCEPT !.response_text = @ \o v.v]
        ELSE IF line[1] = "a0:" /\ v.t # "error"
             THEN [st EXCEPT !.aborted = TRUE]
        ELSE IF line[1] = "a3:" /\ st.error_message = PyNone
             THEN [st EXCEPT !.error_message =
                      IF v.t = "error" THEN PyStr(Tail(line)) ELSE v]
        ELSE IF line[1] = "ad:" /\ v.t = "dict"
             THEN [st EXCEPT !.finish_reason = v.v]
        ELSE IF line[1] = "ad:" /\ v.t # "error"
             THEN [st EXCEPT !.aborted = TRUE]
        ELSE st

\* One iteration of the loop: st after the raw line.  aborted stands for an
\* exception other than JSONDecodeError leaving the loop (str += a value that
\* is not a str, .get on a value that is not a dict).
DecodeLine(st, raw) ==
    LET line == Strip(raw)
    IN  IF line = <<>> THEN st
        ELSE LET v == JsonLoads(Tail(line))
             IN  CASE line[1] = "a0:" ->
                        IF v.t = "error" THEN st
                        ELSE IF v.t = "str"
                             THEN [st EXCEPT !.response_text = @ \o v.v]
                             ELSE [st EXCEPT !.aborted = TRUE]
                   [] line[1] = "a3:" ->
                        IF v.t = "error"
                        THEN [st EXCEPT !.error_message = PyStr(Tail(line))]
                        ELSE [st EXCEPT !.error_message = v]
                   [] line[1] = "ad:" ->
                        IF v.t = "error" THEN st
                        ELSE IF v.t = "dict"
                             THEN [st EXCEPT !.finish_reason = v.v]
                             ELSE [st EXCEPT !.aborted = TRUE]
                   [] OTHER -> st

\* The loop over all the lines of a body.
RECURSIVE DecodeFrom(_, _)
DecodeFrom(st, lines) ==
    IF lines = <<>> \/ st.aborted THEN st
    ELSE DecodeFrom(DecodeLine(st, Head(lines)), Tail(lines))

DecodeBody(lines) == DecodeFrom(DecodeStart, lines)

DecodeResultTrimsFirstMutant(st) ==
    IF st.aborted
    THEN [status |-> 500, content |-> <<>>, detail |-> "internal", message |-> PyNone]
    ELSE IF Strip(st.response_text) = <<>>
         THEN IF Truthy(st.error_message)
              THEN [status |-> 502, content |-> <<>>, detail |-> "upstream_error",
                    message |-> st.error_message]
              ELSE [status |-> 502, content |-> <<>>, detail |-> "empty",
                    message |-> PyNone]
         ELSE [status |-> 200, content |-> Strip(st.response_text),
               detail |-> None, message |-> PyNone]

DecodeResultErrorWinsMutant(st) ==
    IF st.aborted
    THEN [status |-> 500, content |-> <<>>, detail |-> "internal", message |-> PyNone]
    ELSE IF Truthy(st.error_message)
         THEN [status |-> 502, content |-> <<>>, detail |-> "upstream_error",
               message |-> st.error_message]
    ELSE IF st.response_text = <<>>
         THEN [status |-> 502, content |-> <<>>, detail |-> "empty",
               message |-> PyNone]
         ELSE [status |-> 200, content |-> Strip(st.response_text),
               detail |-> None, message |-> PyNone]

\* What the handler answers once the loop has ended: 500 when an exception
\* left the loop, 502 on an empty text (with the a3: message when it is
\* truthy, else the generic detail), else the trimmed text.
DecodeResult(st) ==
    IF st.aborted
    THEN [status |-> 500, content |-> <<>>, detail |-> "internal", message |-> PyNone]
    ELSE IF st.response_text = <<>>
         THEN IF Truthy(st.error_message)
              THEN [status |-> 502, content |-> <<>>, detail |-> "upstream_error",
                    message |-> st.error_message]
              ELSE [status |-> 502, content |-> <<>>, detail |-> "empty",
                    message |-> PyNone]
         ELSE [status |-> 200, content |-> Strip(st.response_text),
               detail |-> None, message |-> PyNone]

\* Raw lines the decoder specification draws its bodies from.
SampleLines ==
    { <<"a0:", "\"Hi\"">>,
      <<"a0:", "\"Yo \"">>,
      <<"a0:", "\" \"">>,
      <<" ", "a0:", "\"Hi\"", " ">>,
      <<"a0:", "\"Hi">>,
      <<"a0:", "7">>,
      <<"a3:", "\"boom\"">>,
      <<"a3:", "\"Hi\"">>,
      <<"a3:", "oops">>,
      <<"a3:", "\"\"">>,
      <<"a3:">>,
      <<"ad:", "{\"finishReason\":\"stop\"}">>,
      <<"ad:", "{}">>,
      <<"b0:", "\"Hi\"">>,
      <<>>,
      <<" ">> }

RECURSIVE SeqsUpTo(_, _)
SeqsUpTo(S, n) ==
    IF n = 0 THEN {<<>>}
    ELSE LET shorter == SeqsUpTo(S, n - 1)
         IN  shorter \cup {Append(q, x) : q \in shorter, x \in S}

(***************************************************************************)
(* Identifiers.                                                            *)
(***************************************************************************)
\* uuid7(): the fields packed into the 128-bit identifier, most significant
\* first.  ts_ms is int(time.time() * 1000); rand_a and rand_b are the two
\* secrets.randbits draws.
uuid7(ts_ms, rand_a, rand_b) ==
    [time |-> ts_ms, ver |-> UuidVersion, rand_a |-> rand_a,
     var |-> UuidVariant, rand_b |-> rand_b]

\* The same function on the digits.  An integer is the sequence of its
\* hexadecimal digits (0..15), most significant first: 128 bits do not fit
\* a machine integer of the model.
HexChars == << "0", "1", "2", "3", "4", "5", "6", "7",
               "8", "9", "a", "b", "c", "d", "e", "f" >>

Zeros(n) == [i \in 1..n |-> 0]

PadLeft(x, n) == IF Len(x) >= n THEN x ELSE Zeros(n - Len(x)) \o x

\* a | b on one digit, bit by bit.
OrDigit(a, b) ==
    LET Bit(v, k) == (v \div (2 ^ k)) % 2
        Or(k) == IF Bit(a, k) = 1 \/ Bit(b, k) = 1 THEN 2 ^ k ELSE 0
    IN  Or(0) + Or(1) + Or(2) + Or(3)

\* x | y
OrInt(x, y) ==
    LET n == IF Len(x) >= Len(y) THEN Len(x) ELSE Len(y)
    IN  [i \in 1..n |-> OrDigit(PadLeft(x, n)[i], PadLeft(y, n)[i])]

\* x << bits, for a multiple of 4 bits
ShiftLeft(x, bits) == x \o Zeros(bits \div 4)

\* The digits of an integer without leading zeros (empty for 0).
RECURSIVE Significant(_)
Significant(x) ==
    IF x = <<>> \/ x[1] # 0 THEN x ELSE Significant(Tail(x))

\* f"{x:032x}": at least 32 lower-case hexadecimal digits.
FormatHex32(x) ==
    LET d == PadLeft(Significant(x), 32)
    IN  [i \in 1..Len(d) |-> HexChars[d[i] + 1]]

\* s[a:b]
Slice(s, a, b) == SubSeq(s, a + 1, IF b <= Len(s) THEN b ELSE Len(s))

\* uuid_int of uuid7(): the timestamp shifted by 80 bits, 0x7000 | rand_a
\* shifted by 64, 0x8000000000000000 | rand_b.
Uuid7Int(timestamp_ms, rand_a, rand_b) ==
    OrInt(OrInt(ShiftLeft(timestamp_ms, 80),
                ShiftLeft(OrInt(<<UuidVersion, 0, 0, 0>>, rand_a), 64)),
          OrInt(<<4 * UuidVariant>> \o Zeros(15), rand_b))

Uuid7StringUnpaddedMutant(timestamp_ms, rand_a, rand_b) ==
    LET d == Significant(Uuid7Int(timestamp_ms, rand_a, rand_b))
        hex_str == [i \in 1..Len(d) |-> HexChars[d[i] + 1]]
    IN  Slice(hex_str, 0, 8) \o <<"-">> \o Slice(hex_str, 8, 12) \o <<"-">>
          \o Slice(hex_str, 12, 16) \o <<"-">> \o Slice(hex_str, 16, 20)
          \o <<"-">> \o Slice(hex_str, 20, 32)

Uuid7StringDropsRandMutant(timestamp_ms, rand_a, rand_b) ==
    LET hex_str == FormatHex32(Uuid7Int(timestamp_ms, rand_a, Zeros(16)))
    IN  Slice(hex_str, 0, 8) \o <<"-">> \o Slice(hex_str, 8, 12) \o <<"-">>
          \o Slice(hex_str, 12, 16) \o <<"-">> \o Slice(hex_str, 16, 20)
          \o <<"-">> \o Slice(hex_str, 20, 32)

\* The string uuid7() returns: hex_str cut 8-4-4-4-12.
Uuid7String(timestamp_ms, rand_a, rand_b) ==
    LET hex_str == FormatHex32(Uuid7Int(timestamp_ms, rand_a, rand_b))
    IN  Slice(hex_str, 0, 8) \o <<"-">> \o Slice(hex_str, 8, 12) \o <<"-">>
          \o Slice(hex_str, 12, 16) \o <<"-">> \o Slice(hex_str, 16, 20)
          \o <<"-">> \o Slice(hex_str, 20, 32)

\* Clock readings in milliseconds, as digits: 0, a date in 2025,
\* 2^48 - 1, and 2^48, which no longer fits 48 bits.
SampleTimestamps ==
    { Zeros(12),
      <<0, 1, 9, 10, 5, 11, 12, 13, 14, 15, 0, 1>>,
      [i \in 1..12 |-> 15],
      <<1>> \o Zeros(12) }

\* secrets.randbits(12) and secrets.randbits(62), as digits.
SampleRandA == { <<0, 0, 0>>, <<15, 15, 15>> }

SampleRandB == { Zeros(15) \o <<1>>, <<3>> \o [i \in 1..15 |-> 15] }

\* x < y
IntLess(x, y) ==
    LET n == IF Len(x) >= Len(y) THEN Len(x) ELSE Len(y)
        a == PadLeft(x, n)
        b == PadLeft(y, n)
    IN  \E i \in 1..n : a[i] < b[i] /\ \A j \in 1..(i - 1) : a[j] = b[j]

\* Python None where an identifier is expected.
NoneId == [time |-> 0, ver |-> 0, rand_a |-> 0, var |-> 0, rand_b |-> 0]

\* The draws of (rand_a, rand_b) one uuid7() call may make.
SampleRand == { <<0, 0>>, <<0, 1>> }

\* uuid7() at time t (seconds) with the draws r.
NewId(t, r) == uuid7(t * 1000, r[1], r[2])

\* The uuid4 draws of f"conv-{uuid.uuid4()}".
SampleUuid4 == {"conv-u1", "conv-u2"}

(***************************************************************************)
(* Sample request bodies.                                                  *)
(***************************************************************************)
Msg(role, content) == [role |-> role, content |-> content]

\* messages lists.  A role of None stands for a message without a "role"
\* entry; a content of <<>> is the empty string (or no "content" entry in
\* the final message, which .get("content", "") reads as "").
SampleMessages ==
    { <<>>,
      << Msg("user", <<"h", "i">>) >>,
      << Msg("user", <<>>) >>,
      << Msg("user", <<"h", "i">>), Msg("assistant", <<"y", "o">>),
         Msg("user", <<"g", "o">>) >>,
      << Msg(None, <<"h", "i">>), Msg("user", <<"h", "i">>) >> }

\* body["model"]; None when the body has none.
SampleModelNames == {None, "m1", "mX"}

\* The conversation ids clients send.
ClientConvIds == {"c1"}

\* No "conversation_id" entry in the body.
Absent == "absent"

ConvIds == ClientConvIds \cup SampleUuid4

\* models.json
SampleModels ==
    << [id |-> "id-1", publicName |-> "m1"],
       [id |-> "id-2", publicName |-> "m2"] >>

ModelNames == {"m1", "m2"}

\* Python None where a session is expected.
NoneSession == [conversation_id |-> NoneId, last_message_id |-> NoneId, model |-> None]

\* session.get(field, default)
SessionGet(session, field, default) ==
    IF field \in DOMAIN session THEN session[field] ELSE default

(***************************************************************************)
(* api_chat_completions, from the body to the upstream request.            *)
(***************************************************************************)
\* The loop over get_models(): the id of the first model with that
\* publicName, None when there is none.
FindModelId(ms, name) ==
    IF \E i \in 1..Len(ms) : ms[i].publicName = name
    THEN ms[CHOOSE i \in 1..Len(ms) :
                /\ ms[i].publicName = name
                /\ \A j \in 1..(i - 1) : ms[j].publicName # name].id
    ELSE None

\* get_config(): the usage_stats of the document read become the in-memory
\* counters (main.py:69-70).
GetConfigStats(file_stats) == file_stats

\* save_config(): the in-memory counters become the usage_stats of the
\* document written (main.py:76).
SaveConfigStats(mem_stats) == mem_stats

\* "Log usage": the increment, then get_config(), then save_config(config).
LogUsage(mem_stats, file_stats, name) ==
    LET incremented == [mem_stats EXCEPT ![name] = @ + 1]
        mem_after_get == GetConfigStats(file_stats)
        file_after_save == SaveConfigStats(mem_after_get)
    IN  [mem |-> mem_after_get, file |-> file_after_save,
         discarded |-> incremented]

Node(id, role, content, parents, model_id, sid, status) ==
    [id |-> id, role |-> role, content |-> content, parentMessageIds |-> parents,
     participantPosition |-> "a", modelId |-> model_id,
     evaluationSessionId |-> sid, status |-> status, failureReason |-> None]

FirstTurnRequestNoParentMutant(session_id, user_msg_id, model_msg_id, model_id, prompt) ==
    [url |-> [endpoint |-> "create-evaluation", sid |-> NoneId],
     payload |->
        [id |-> session_id, mode |-> "direct", modelAId |-> model_id,
         userMessageId |-> user_msg_id, modelAMessageId |-> model_msg_id,
         messages |->
            << Node(user_msg_id, "user", prompt, <<>>, None, session_id, "pending"),
               Node(model_msg_id, "assistant", <<>>, <<>>, model_id,
                    session_id, "pending") >>,
         modality |-> "chat"]]

\* The payload and URL of a new conversation.
FirstTurnRequest(session_id, user_msg_id, model_msg_id, model_id, prompt) ==
    [url |-> [endpoint |-> "create-evaluation", sid |-> NoneId],
     payload |->
        [id |-> session_id, mode |-> "direct", modelAId |-> model_id,
         userMessageId |-> user_msg_id, modelAMessageId |-> model_msg_id,
         messages |->
            << Node(user_msg_id, "user", prompt, <<>>, None, session_id, "pending"),
               Node(model_msg_id, "assistant", <<>>, <<user_msg_id>>, model_id,
                    session_id, "pending") >>,
         modality |-> "chat"]]

\* The ids of the history nodes: hist_ids[i] is the fresh uuid7() drawn for
\* history message i; the first one is session.get("first_user_msg_id", it).
HistoryId(session, hist_ids, i) ==
    IF i > 1 THEN hist_ids[i]
    ELSE SessionGet(session, "first_user_msg_id", hist_ids[1])

\* conversation_messages after the loop over messages[:-1].
RECURSIVE HistoryNodes(_, _, _, _, _)
HistoryNodes(session, history, hist_ids, model_id, n) ==
    IF n = 0 THEN <<>>
    ELSE LET before == HistoryNodes(session, history, hist_ids, model_id, n - 1)
             msg == history[n]
         IN  Append(before,
                    Node(HistoryId(session, hist_ids, n), msg.role, msg.content,
                         IF before = <<>> THEN <<>> ELSE <<before[Len(before)].id>>,
                         IF msg.role = "assistant" THEN model_id ELSE None,
                         session.conversation_id,
                         IF msg.role = "assistant" THEN "success" ELSE "pending"))

FollowupRequestStoredParentMutant(session, user_msg_id, model_msg_id, hist_ids, messages, model_id, prompt) ==
    LET history == SubSeq(messages, 1, Len(messages) - 1)
        nodes == HistoryNodes(session, history, hist_ids, model_id, Len(history))
        last_msg_id == SessionGet(session, "last_message_id", NoneId)
        conversation_messages ==
            nodes \o
            << Node(user_msg_id, "user", prompt, <<last_msg_id>>, None,
                    session.conversation_id, "pending"),
               Node(model_msg_id, "assistant", <<>>, <<user_msg_id>>, model_id,
                    session.conversation_id, "pending") >>
    IN  [url |-> [endpoint |-> "post-to-evaluation", sid |-> session.conversation_id],
         payload |->
            [id |-> session.conversation_id, mode |-> "direct", modelAId |-> model_id,
             userMessageId |-> user_msg_id, modelAMessageId |-> model_msg_id,
             messages |-> conversation_messages, modality |-> "chat"]]

\* The payload and URL of a follow-up on the stored session.
FollowupRequest(session, user_msg_id, model_msg_id, hist_ids, messages, model_id, prompt) ==
    LET history == SubSeq(messages, 1, Len(messages) - 1)
        nodes == HistoryNodes(session, history, hist_ids, model_id, Len(history))
        last_msg_id == IF nodes # <<>> THEN nodes[Len(nodes)].id
                       ELSE SessionGet(session, "last_message_id", NoneId)
        conversation_messages ==
            nodes \o
            << Node(user_msg_id, "user", prompt, <<last_msg_id>>, None,
                    session.conversation_id, "pending"),
               Node(model_msg_id, "assistant", <<>>, <<user_msg_id>>, model_id,
                    session.conversation_id, "pending") >>
    IN  [url |-> [endpoint |-> "post-to-evaluation", sid |-> session.conversation_id],
         payload |->
            [id |-> session.conversation_id, mode |-> "direct", modelAId |-> model_id,
             userMessageId |-> user_msg_id, modelAMessageId |-> model_msg_id,
             messages |-> conversation_messages, modality |-> "chat"]]

\* msg["role"] or msg["content"] raises KeyError for a history message.
HistoryRaises(messages) ==
    \E i \in 1..(Len(messages) - 1) : messages[i].role = None

UpdateSessionEveryKeyMutant(cs, r) ==
    [k \in DOMAIN cs |->
        [cs[k] EXCEPT ![r.conversation_id] =
            [conversation_id |-> IF r.session = NoneSession THEN r.session_id
                                 ELSE r.session.conversation_id,
             last_message_id |-> r.model_msg_id,
             model |-> r.model]]]

UpdateSessionKeepsLastMutant(cs, r) ==
    IF r.session = NoneSession
    THEN [cs EXCEPT ![r.api_key_str][r.conversation_id] =
             [conversation_id |-> r.session_id,
              last_message_id |-> r.model_msg_id,
              model |-> r.model]]
    ELSE cs

UpdateSessionFirstWriteWinsMutant(cs, r) ==
    IF cs[r.api_key_str][r.conversation_id] = NoneSession
    THEN [cs EXCEPT ![r.api_key_str][r.conversation_id] =
             [conversation_id |-> r.session_id,
              last_message_id |-> r.model_msg_id,
              model |-> r.model]]
    ELSE IF r.session = NoneSession THEN cs
    ELSE [cs EXCEPT ![r.api_key_str][r.conversation_id].last_message_id =
             r.model_msg_id]

\* The session update after a successful exchange (main.py:1109-1119): r is
\* the request task, whose session is what it read before the upstream call.
UpdateSession(cs, r) ==
    IF r.session = NoneSession
    THEN [cs EXCEPT ![r.api_key_str][r.conversation_id] =
             [conversation_id |-> r.session_id,
              last_message_id |-> r.model_msg_id,
              model |-> r.model]]
    ELSE [cs EXCEPT ![r.api_key_str][r.conversation_id].last_message_id =
             r.model_msg_id]

(***************************************************************************)
(* Requests, responses and upstream outcomes.                              *)
(***************************************************************************)
Slots == {1, 2}

\* A request body; valid is FALSE for a body request.json() cannot parse.
\* stream is the body's "stream" entry, which the handler never reads.
SampleBodies ==
    { [valid |-> FALSE, model |-> None, messages |-> <<>>, conversation_id |-> Absent,
       stream |-> FALSE] }
    \cup
    { [valid |-> TRUE, model |-> m, messages |-> ms, conversation_id |-> c,
       stream |-> st] :
        m \in SampleModelNames, ms \in SampleMessages,
        c \in ClientConvIds \cup {Absent}, st \in BOOLEAN }

\* config.json "auth_token" values, as token sequences.
SampleAuthTokens == { <<>>, <<"tok">> }

\* config.json "usage_stats" documents.
SampleUsageStats ==
    { [m \in ModelNames |-> IF m = "m1" THEN 1 ELSE 0] }

Line(prefix, payload) == <<prefix, payload>>

\* What the upstream call can end with: a timeout, another transport
\* exception, or a response with a status code and body lines.
SampleOutcomes ==
    { [kind |-> "timeout", status_code |-> 0, lines |-> <<>>],
      [kind |-> "error", status_code |-> 0, lines |-> <<>>],
      [kind |-> "response", status_code |-> 403, lines |-> << <<"denied">> >>] }
    \cup
    { [kind |-> "response", status_code |-> 200, lines |-> b] :
        b \in { <<>>,
                << Line("a0:", "\"Hi\""), Line("ad:", "{\"finishReason\":\"stop\"}") >>,
                << Line("a3:", "\"boom\"") >>,
                << Line("a0:", "\" \"") >>,
                << Line("a0:", "7") >>,
                << Line("a0:", "\"Yo \""), Line("a3:", "\"boom\"") >>,
                << Line("a3:", "\"boom\""), Line("a0:", "\"Hi\"") >> } }

NoneRequest == [url |-> [endpoint |-> None, sid |-> NoneId], payload |-> [messages |-> <<>>]]

\* A slot with no request task.
IdleReq ==
    [pc |-> "idle", key_data |-> NoneKey, api_key_str |-> None,
     conversation_id |-> None, session |-> NoneSession, session_id |-> NoneId,
     user_msg_id |-> NoneId, model_msg_id |-> NoneId, model |-> None,
     prompt |-> <<>>, request |-> NoneRequest,
     overlapped |-> FALSE, peer_ok |-> FALSE, stream |-> FALSE]

\* No body, no outcome.
NoneBody ==
    [valid |-> FALSE, model |-> None, messages |-> <<>>, conversation_id |-> None,
     stream |-> FALSE]

NoneOutcome == [kind |-> None, status_code |-> 0, lines |-> <<>>]

\* No completion object.
NoneFinal ==
    [object |-> None, created |-> 0, model |-> None, conversation_id |-> None,
     choices |-> <<>>,
     usage |-> [prompt_tokens |-> 0, completion_tokens |-> 0, total_tokens |-> 0]]

FinalResponseCountsContentMutant(t, model_public_name, conversation_id, prompt, response_text) ==
    [object |-> "chat.completion", created |-> t, model |-> model_public_name,
     conversation_id |-> conversation_id,
     choices |-> << [index |-> 0,
                     message |-> [role |-> "assistant",
                                  content |-> Strip(response_text)],
                     finish_reason |-> "stop"] >>,
     usage |-> [prompt_tokens |-> Len(prompt),
                completion_tokens |-> Len(Strip(response_text)),
                total_tokens |-> Len(prompt) + Len(Strip(response_text))]]

\* final_response: the completion object of a successful exchange.
FinalResponse(t, model_public_name, conversation_id, prompt, response_text) ==
    [object |-> "chat.completion", created |-> t, model |-> model_public_name,
     conversation_id |-> conversation_id,
     choices |-> << [index |-> 0,
                     message |-> [role |-> "assistant",
                                  content |-> Strip(response_text)],
                     finish_reason |-> "stop"] >>,
     usage |-> [prompt_tokens |-> Len(prompt),
                completion_tokens |-> Len(response_text),
                total_tokens |-> Len(prompt) + Len(response_text)]]

\* No response yet.  upstream_status and upstream_body are what the detail
\* of a 502 for an upstream status quotes.  The others from followup on are
\* history fields: the request was a follow-up on a stored session; it was
\* in flight together with another request of the same key and
\* conversation; that other request was answered 200 while this one was in
\* flight; the Authorization header, the body and the upstream outcome the
\* response answers (those the handler got to); whether the body asked for
\* a stream.  final is the completion object of a 200.
NoneResp ==
    [status |-> 0, content |-> <<>>, conversation_id |-> None, detail |-> None,
     message |-> PyNone, upstream_status |-> 0, upstream_body |-> <<>>,
     followup |-> FALSE, overlapped |-> FALSE, peer_ok |-> FALSE,
     header |-> <<>>, body |-> NoneBody, outcome |-> NoneOutcome,
     stream |-> FALSE, final |-> NoneFinal]

ErrorResp(status, detail) == [NoneResp EXCEPT !.status = status, !.detail = detail]

\* response.raise_for_status() does not raise
IsSuccess(code) == 200 <= code /\ code <= 299

\* e.response.text[:200], over the lines of the body
ErrorBody(lines) ==
    SubSeq(lines, 1, IF Len(lines) < DetailBodyLimit THEN Len(lines) ELSE DetailBodyLimit)

ExchangeResultRewrapsMutant(oc) ==
    CASE oc.kind = "timeout" -> ErrorResp(504, "timeout")
      [] oc.kind = "response" /\ ~IsSuccess(oc.status_code) ->
            [ErrorResp(502, "status") EXCEPT !.upstream_status = oc.status_code,
                                             !.upstream_body = ErrorBody(oc.lines)]
      [] oc.kind = "response" /\ DecodeResult(DecodeBody(oc.lines)).status = 200 ->
            LET d == DecodeResult(DecodeBody(oc.lines))
            IN  [NoneResp EXCEPT !.status = d.status, !.content = d.content,
                                 !.detail = d.detail, !.message = d.message]
      [] OTHER -> ErrorResp(500, "internal")

\* What the handler answers to an outcome of the upstream call.
ExchangeResult(oc) ==
    CASE oc.kind = "timeout" -> ErrorResp(504, "timeout")
      [] oc.kind = "error" -> ErrorResp(500, "internal")
      [] oc.kind = "response" /\ ~IsSuccess(oc.status_code) ->
            [ErrorResp(502, "status") EXCEPT !.upstream_status = oc.status_code,
                                             !.upstream_body = ErrorBody(oc.lines)]
      [] OTHER ->
            LET d == DecodeResult(DecodeBody(oc.lines))
            IN  [NoneResp EXCEPT !.status = d.status, !.content = d.content,
                                 !.detail = d.detail, !.message = d.message]

SessionsAfterSavesOnErrorMutant(cs, r, status) ==
    IF status \in {200, 502} THEN UpdateSession(cs, r) ELSE cs

SessionsAfterEvictsOnErrorMutant(cs, r, status) ==
    IF status = 200 THEN UpdateSession(cs, r)
    ELSE [cs EXCEPT ![r.api_key_str][r.conversation_id] = NoneSession]

\* The registry after the exchange: the update is reached only when nothing
\* before it has raised.
SessionsAfter(cs, r, status) ==
    IF status = 200 THEN UpdateSession(cs, r) ELSE cs

PreflightSkipsPromptCheckMutant(body, ms, token) ==
    IF ~body.valid THEN [status |-> 500, logged |-> FALSE]
    ELSE IF body.model = None \/ body.messages = <<>>
         THEN [status |-> 400, logged |-> FALSE]
    ELSE IF FindModelId(ms, body.model) = None
         THEN [status |-> 404, logged |-> FALSE]
    ELSE IF Strip(token) = <<>>
         THEN [status |-> 500, logged |-> TRUE]
    ELSE [status |-> 200, logged |-> TRUE]

\* How far the handler gets before the session lookup: the status it
\* raises, or 200 when it goes on; logged says whether "Log usage" has run.
Preflight(body, ms, token) ==
    IF ~body.valid THEN [status |-> 500, logged |-> FALSE]
    ELSE IF body.model = None \/ body.messages = <<>>
         THEN [status |-> 400, logged |-> FALSE]
    ELSE IF FindModelId(ms, body.model) = None
         THEN [status |-> 404, logged |-> FALSE]
    ELSE IF body.messages[Len(body.messages)].content = <<>>
         THEN [status |-> 400, logged |-> TRUE]
    ELSE IF Strip(token) = <<>>
         THEN [status |-> 500, logged |-> TRUE]
    ELSE [status |-> 200, logged |-> TRUE]

(***************************************************************************)
(* History variables.                                                      *)
(***************************************************************************)
HistInit(stats) ==
    [ \* per key, the times of the requests the limiter admitted
      admitted |-> [k \in KeyStrs |-> <<>>],
      \* the last run of the limiter on a known key
      lastcheck |-> [status |-> 0, key |-> None, time |-> 0],
      \* usage_stats at start-up
      usage0 |-> stats,
      \* per model, the completion requests that resolved it
      resolved |-> [m \in ModelNames |-> 0],
      \* per conversation, the assistant id of the last exchange answered 200
      acked |-> [k \in KeyStrs |-> [c \in ConvIds |-> NoneId]],
      \* per conversation, the user-message id sent when the session was created
      first_sent |-> [k \in KeyStrs |-> [c \in ConvIds |-> NoneId]],
      \* the payloads posted: the upstream session addressed and the
      \* assistant message id in the payload
      sent |-> {},
      \* the last login attempt (cookie: the session id issued, None when
      \* refused), logout, or administrative request whose cookie names no
      \* session of dashboard_sessions
      dash |-> [op |-> None, cookie |-> None, password |-> None] ]

DecIdle == [lines |-> <<>>, i |-> 0, st |-> DecodeStart, done |-> FALSE,
            result |-> NoneResp]

(***************************************************************************)
(* The userscript proxy (spec sections 3, 4.6, 4.7 and 5; main.py has no   *)
(* job table and no polling endpoint).                                     *)
(***************************************************************************)
\* The external polling agents.
Agents == {1, 2}

\* No job registered.
NoneJob ==
    [phase |-> None, status_code |-> 0, picked_up_event |-> FALSE,
     status_event |-> FALSE, done_event |-> FALSE, lines_queue |-> <<>>,
     error |-> None]

\* The request handler that waits on a job: where it is, the decoder's
\* locals, its answer.
NoneHandler == [pc |-> None, st |-> DecodeStart, result |-> NoneResp]

\* The end-of-stream item of a lines queue (None in the test's agent).
QueueSentinel == <<None>>

\* done and error are the terminal phases.
Terminal(phase) == phase \in {"done", "error"}

\* The order of the phases.
PhaseRank(phase) ==
    CASE phase = "queued" -> 1
      [] phase = "picked_up" -> 2
      [] phase = "fetch" -> 3
      [] phase = "streaming" -> 4
      [] phase \in {"done", "error"} -> 5
      [] OTHER -> 0

\* The lines an agent relays, and the upstream statuses it learns.
ProxySampleLines ==
    { <<"a0:", "\"Hi\"">>, <<"a0:", "\"Yo \"">>, <<"a3:", "\"boom\"">>,
      <<"a0:", "7">> }

ProxyStatusCodes == {200, 403}

\* config.json "cf_clearance" as get_config() defaults it: the empty string.
NoClearance == ""

\* The two callers of get_initial_data(): the task startup_event creates
\* and POST /refresh-tokens.
AcqTasks == {"startup", "refresh"}

\* The part of config.json the dashboard and get_initial_data() write.
ConfigDoc(token, keys, clearance) ==
    [auth_token |-> token, api_keys |-> keys, cf_clearance |-> clearance]

\* No cookie: next(..., None).
NoneCookie == [name |-> None, value |-> None]

\* A get_initial_data() task that is not running.  cf_clearance_cookie and
\* match are its locals; why says how it returned.
AcqTaskIdle ==
    [pc |-> "idle", cf_clearance_cookie |-> NoneCookie, match |-> FALSE,
     why |-> None]

\* What page.context.cookies() returns.
SampleCookieJars ==
    { <<>>,
      << [name |-> "other", value |-> "x"], [name |-> "cf_clearance", value |-> "cfA"] >>,
      << [name |-> "cf_clearance", value |-> "cfB"],
         [name |-> "cf_clearance", value |-> "cfA"] >> }

\* What page.content() holds: no initialModels pattern, a catalog, or a
\* match that json.loads rejects.
SamplePages ==
    { [found |-> FALSE, parses |-> FALSE, models |-> <<>>],
      [found |-> TRUE, parses |-> FALSE, models |-> <<>>],
      [found |-> TRUE, parses |-> TRUE,
       models |-> << [id |-> "id-9", publicName |-> "m1"] >>] }

\* Form values of the dashboard.
SampleTokenForms == { <<" ", "tok2", " ">>, <<>> }

SampleKeyForms == { [name |-> "three", key |-> "sk3", rpm |-> 1001] }

SampleKeyIds == {"sk1", "sk3"}

\* No task runs.  runs counts the invocations; written is a history
\* variable: the document as the operations so far meant to leave it, each
\* one changing its own entry.
AcqIdle(token, keys, clearance) ==
    [tasks |-> [t \in AcqTasks |-> AcqTaskIdle],
     runs |-> 0,
     written |-> ConfigDoc(token, keys, clearance)]

\* The proxy at start-up: no recent poll, no job.  claims, sent and consumed
\* are history fields: the agents that claimed the job, in order; all that
\* was put on the lines queue; the lines the handler took from it.
ProxyIdle ==
    [active |-> FALSE, job |-> NoneJob, handler |-> NoneHandler,
     claims |-> <<>>, sent |-> <<>>, consumed |-> <<>>]

Init ==
    /\ now = 0
    /\ api_keys = SampleApiKeys
    /\ auth_token \in SampleAuthTokens
    /\ usage_stats \in SampleUsageStats
    /\ model_usage_stats = usage_stats
    /\ models = SampleModels
    /\ api_key_usage = [k \in KeyStrs |-> <<>>]
    /\ chat_sessions = [k \in KeyStrs |-> [c \in ConvIds |-> NoneSession]]
    /\ req = [s \in Slots |-> IdleReq]
    /\ resp = NoneResp
    /\ nreq = 0
    /\ hist = HistInit(usage_stats)
    /\ dec = DecIdle
    /\ proxy = ProxyIdle
    /\ cf_clearance = NoClearance
    /\ acq = AcqIdle(auth_token, api_keys, cf_clearance)
    /\ calls = <<>>
    /\ dashboard_sessions = {}

(***************************************************************************)
(* Actions.                                                                *)
(***************************************************************************)
\* Time passes.
Tick(d) ==
    /\ now + d <= MaxTime
    /\ now' = now + d
    /\ UNCHANGED << api_keys, auth_token, usage_stats, model_usage_stats, models,
                    api_key_usage, chat_sessions, req, resp, nreq, hist, dec,
                    proxy,
                    cf_clearance, acq, calls, dashboard_sessions >>

\* GET /api/v1/models with Authorization header h: the rate_limit_api_key
\* dependency, then the listing (which changes no state).
ListModels(h) ==
    /\ nreq < MaxRateReq
    /\ LET rl == RateLimitApiKey(h, api_keys, api_key_usage, now)
       IN  /\ api_key_usage' = rl.usage
           /\ model_usage_stats' =
                 IF rl.read_config THEN GetConfigStats(usage_stats)
                 ELSE model_usage_stats
           /\ hist' =
                 IF rl.key_data = NoneKey THEN hist
                 ELSE [hist EXCEPT
                         !.lastcheck = [status |-> rl.status,
                                        key |-> rl.key_data.key, time |-> now],
                         !.admitted[rl.key_data.key] =
                             IF rl.status = 200 THEN Append(@, now) ELSE @]
    /\ nreq' = nreq + 1
    /\ UNCHANGED << now, api_keys, auth_token, usage_stats, models, chat_sessions,
                    req, resp, dec, proxy,
                    cf_clearance, acq, calls, dashboard_sessions >>

\* POST /api/v1/chat/completions arrives on slot s with header h: the
\* rate_limit_api_key dependency runs; the handler then waits for the body.
Admit(s, h) ==
    /\ nreq < MaxReq
    /\ req[s].pc = "idle"
    /\ \A t \in Slots : t < s => req[t].pc # "idle"
    /\ LET rl == RateLimitApiKey(h, api_keys, api_key_usage, now)
       IN  /\ api_key_usage' = rl.usage
           /\ model_usage_stats' =
                 IF rl.read_config THEN GetConfigStats(usage_stats)
                 ELSE model_usage_stats
           /\ IF rl.status = 200
              THEN /\ req' = [req EXCEPT ![s] =
                                [IdleReq EXCEPT !.pc = "admitted",
                                                !.key_data = rl.key_data]]
                   /\ UNCHANGED resp
              ELSE /\ resp' = [ErrorResp(rl.status, "auth") EXCEPT !.header = h]
                   /\ UNCHANGED req
    /\ nreq' = nreq + 1
    /\ UNCHANGED << now, api_keys, auth_token, usage_stats, models, chat_sessions,
                    hist, dec, proxy,
                    cf_clearance, acq, calls, dashboard_sessions >>

\* The handler on slot s reads the body and runs up to the upstream call:
\* an error response, or the request task suspended in client.post.
\* u4 is the uuid4 draw of a generated conversation id, r the draws of the
\* three uuid7() calls of a new conversation (the first two, of a
\* follow-up), hr the draws of the uuid7() calls for the history messages.
Handle(s, bodies) ==
    /\ req[s].pc = "admitted"
    /\ \E body \in bodies :
       \E u4 \in (IF body.conversation_id = Absent THEN SampleUuid4 ELSE {None}) :
         LET pre == Preflight(body, models, auth_token)
             api_key_str == req[s].key_data.key
             conversation_id == IF body.conversation_id = Absent THEN u4
                                ELSE body.conversation_id
             session == chat_sessions[api_key_str][conversation_id]
             first == session = NoneSession
         IN
         \E r \in [1..(IF pre.status # 200 THEN 0 ELSE IF first THEN 3 ELSE 2)
                    -> SampleRand],
            hr \in [1..(IF pre.status # 200 \/ first THEN 0
                        ELSE Len(body.messages) - 1) -> SampleRand] :
         LET stats == IF pre.logged
                      THEN LogUsage(model_usage_stats, usage_stats, body.model)
                      ELSE [mem |-> model_usage_stats, file |-> usage_stats]
             model_id == FindModelId(models, body.model)
             prompt == body.messages[Len(body.messages)].content
             session_id == IF first THEN NewId(now, r[1]) ELSE NoneId
             user_msg_id == IF first THEN NewId(now, r[2]) ELSE NewId(now, r[1])
             model_msg_id == IF first THEN NewId(now, r[3]) ELSE NewId(now, r[2])
             hist_ids == [i \in DOMAIN hr |-> NewId(now, hr[i])]
             request ==
                 IF first
                 THEN FirstTurnRequest(session_id, user_msg_id, model_msg_id,
                                       model_id, prompt)
                 ELSE FollowupRequest(session, user_msg_id, model_msg_id, hist_ids,
                                      body.messages, model_id, prompt)
             others == {t \in Slots \ {s} :
                          /\ req[t].pc = "posted"
                          /\ req[t].api_key_str = api_key_str
                          /\ req[t].conversation_id = conversation_id}
         IN  /\ model_usage_stats' = stats.mem
             /\ usage_stats' = stats.file
             /\ hist' =
                   IF pre.status # 200 \/ (~first /\ HistoryRaises(body.messages))
                   THEN IF pre.logged
                        THEN [hist EXCEPT !.resolved[body.model] = @ + 1]
                        ELSE hist
                   ELSE [hist EXCEPT
                           !.resolved[body.model] = @ + 1,
                           !.sent = @ \cup
                              {[sid |-> IF first THEN session_id
                                        ELSE session.conversation_id,
                                mid |-> model_msg_id]}]
             /\ IF pre.status # 200
                THEN /\ resp' = [ErrorResp(pre.status, "request") EXCEPT !.body = body]
                     /\ req' = [req EXCEPT ![s] = IdleReq]
                ELSE IF ~first /\ HistoryRaises(body.messages)
                THEN /\ resp' = [ErrorResp(500, "internal") EXCEPT !.body = body]
                     /\ req' = [req EXCEPT ![s] = IdleReq]
                ELSE /\ req' =
                          [t \in Slots |->
                             IF t = s
                             THEN [pc |-> "posted", key_data |-> req[s].key_data,
                                   api_key_str |-> api_key_str,
                                   conversation_id |-> conversation_id,
                                   session |-> session, session_id |-> session_id,
                                   user_msg_id |-> user_msg_id,
                                   model_msg_id |-> model_msg_id,
                                   model |-> body.model, prompt |-> prompt,
                                   request |-> request,
                                   overlapped |-> others # {}, peer_ok |-> FALSE,
                                   stream |-> body.stream]
                             ELSE IF t \in others
                                  THEN [req[t] EXCEPT !.overlapped = TRUE]
                                  ELSE req[t]]
                     /\ UNCHANGED resp
    /\ UNCHANGED << now, api_keys, auth_token, models, api_key_usage, chat_sessions,
                    nreq, dec, proxy,
                    cf_clearance, acq, calls, dashboard_sessions >>

\* The upstream call of slot s ends with outcome oc; the handler decodes,
\* updates the session and answers.
Complete(s, outcomes) ==
    /\ req[s].pc = "posted"
    /\ \E oc \in outcomes :
         LET r == req[s]
             res == ExchangeResult(oc)
         IN  /\ chat_sessions' = SessionsAfter(chat_sessions, r, res.status)
             /\ resp' = [res EXCEPT !.conversation_id =
                                         IF res.status = 200
                                         THEN r.conversation_id ELSE None,
                                     !.followup = r.session # NoneSession,
                                     !.overlapped = r.overlapped,
                                     !.peer_ok = r.peer_ok,
                                     !.outcome = oc,
                                     !.stream = r.stream,
                                     !.final =
                                         IF res.status = 200
                                         THEN FinalResponse(
                                                now, r.model, r.conversation_id,
                                                r.prompt,
                                                DecodeBody(oc.lines).response_text)
                                         ELSE NoneFinal]
             /\ req' = [t \in Slots |->
                          IF t = s THEN IdleReq
                          ELSE IF /\ res.status = 200
                                  /\ req[t].pc = "posted"
                                  /\ req[t].api_key_str = r.api_key_str
                                  /\ req[t].conversation_id = r.conversation_id
                               THEN [req[t] EXCEPT !.peer_ok = TRUE]
                               ELSE req[t]]
             /\ hist' =
                   IF res.status = 200
                   THEN [hist EXCEPT
                           !.acked[r.api_key_str][r.conversation_id] = r.model_msg_id,
                           !.first_sent[r.api_key_str][r.conversation_id] =
                               IF r.session = NoneSession THEN r.user_msg_id ELSE @]
                   ELSE hist
    /\ UNCHANGED << now, api_keys, auth_token, usage_stats, model_usage_stats,
                    models, api_key_usage, nreq, dec, proxy,
                    cf_clearance, acq, calls, dashboard_sessions >>

\* One iteration of the decoder's loop.
DecodeStep ==
    /\ ~dec.done
    /\ dec.i < Len(dec.lines)
    /\ ~dec.st.aborted
    /\ dec' = [dec EXCEPT !.st = DecodeLine(dec.st, dec.lines[dec.i + 1]),
                          !.i = dec.i + 1]
    /\ UNCHANGED << now, api_keys, auth_token, usage_stats, model_usage_stats,
                    models, api_key_usage, chat_sessions, req, resp, nreq, hist,
                    proxy,
                    cf_clearance, acq, calls, dashboard_sessions >>

\* The loop has ended (all lines read, or an exception): the answer.
DecodeEnd ==
    /\ ~dec.done
    /\ dec.i = Len(dec.lines) \/ dec.st.aborted
    /\ dec' = [dec EXCEPT !.done = TRUE, !.result = DecodeResult(dec.st)]
    /\ UNCHANGED << now, api_keys, auth_token, usage_stats, model_usage_stats,
                    models, api_key_usage, chat_sessions, req, resp, nreq, hist,
                    proxy,
                    cf_clearance, acq, calls, dashboard_sessions >>

(***************************************************************************)
(* The userscript proxy job queue.                                         *)
(***************************************************************************)
NonProxyVars == << now, api_keys, auth_token, usage_stats, model_usage_stats,
                   models, api_key_usage, chat_sessions, req, resp, nreq, hist,
                   dec, cf_clearance, acq, calls, dashboard_sessions >>

ClaimJobAgainMutant(job) ==
    IF job.phase \in {"queued", "fetch"}
    THEN [job EXCEPT !.phase = "picked_up", !.picked_up_event = TRUE]
    ELSE job

\* A poll of an agent on the job: a queued job is claimed (phase picked_up,
\* picked-up signal set); any other job is left as it is.
ClaimJob(job) ==
    IF job.phase = "queued"
    THEN [job EXCEPT !.phase = "picked_up", !.picked_up_event = TRUE]
    ELSE job

MarkOrphanAlwaysMutant(job) == [job EXCEPT !.phase = "error", !.error = "orphaned"]

MarkOrphanNeverMutant(job) == job

\* The handler gives its job up (timeout, cancellation, an exception): a job
\* that is not in a terminal phase is marked error.
MarkOrphan(job) ==
    IF Terminal(job.phase) THEN job
    ELSE [job EXCEPT !.phase = "error", !.error = "orphaned"]

\* The answer once the sentinel is read: the decoder's answer of section
\* 4.8 on a 2xx status, an upstream error otherwise.
ProxyResult(status_code, st) ==
    IF ~IsSuccess(status_code)
    THEN [ErrorResp(502, "status") EXCEPT !.upstream_status = status_code]
    ELSE LET d == DecodeResult(st)
         IN  [NoneResp EXCEPT !.status = d.status, !.content = d.content,
                              !.detail = d.detail, !.message = d.message]

\* An agent polls: the proxy counts as active, and a queued job is claimed.
UserscriptPoll(a) ==
    /\ proxy' = [proxy EXCEPT
                   !.active = TRUE,
                   !.job = ClaimJob(@),
                   !.claims = IF ClaimJob(proxy.job) # proxy.job
                              THEN Append(@, a) ELSE @]
    /\ proxy' # proxy
    /\ UNCHANGED NonProxyVars

\* A request handler selects the job-queue strategy: a job is registered
\* with phase queued, and the handler waits for the picked-up signal.
CreateJob ==
    /\ proxy.job.phase = None
    /\ proxy' = [proxy EXCEPT !.job = [NoneJob EXCEPT !.phase = "queued"],
                              !.handler = [NoneHandler EXCEPT !.pc = "wait_picked_up"]]
    /\ UNCHANGED NonProxyVars

\* The agent that claimed the job begins the request.
AgentFetch(a) ==
    /\ proxy.claims # <<>> /\ proxy.claims[Len(proxy.claims)] = a
    /\ proxy.job.phase = "picked_up"
    /\ proxy' = [proxy EXCEPT !.job.phase = "fetch"]
    /\ UNCHANGED NonProxyVars

\* The agent learns the HTTP status: it records it, sets the status signal
\* and starts streaming.
AgentStatus(a, code) ==
    /\ proxy.claims # <<>> /\ proxy.claims[Len(proxy.claims)] = a
    /\ proxy.job.phase = "fetch"
    /\ proxy' = [proxy EXCEPT !.job.status_code = code,
                              !.job.status_event = TRUE,
                              !.job.phase = "streaming"]
    /\ UNCHANGED NonProxyVars

\* The agent puts an upstream line on the queue.
AgentLine(a, line) ==
    /\ proxy.claims # <<>> /\ proxy.claims[Len(proxy.claims)] = a
    /\ proxy.job.phase = "streaming"
    /\ Len(proxy.sent) < MaxProxyLines
    /\ proxy' = [proxy EXCEPT !.job.lines_queue = Append(@, line),
                              !.sent = Append(@, line)]
    /\ UNCHANGED NonProxyVars

\* The upstream body has ended: the sentinel, then phase done and the done
\* signal.
AgentDone(a) ==
    /\ proxy.claims # <<>> /\ proxy.claims[Len(proxy.claims)] = a
    /\ proxy.job.phase = "streaming"
    /\ proxy' = [proxy EXCEPT !.job.lines_queue = Append(@, QueueSentinel),
                              !.sent = Append(@, QueueSentinel),
                              !.job.phase = "done",
                              !.job.done_event = TRUE]
    /\ UNCHANGED NonProxyVars

\* The agent's request fails: the sentinel, then phase error with the
\* failure and the done signal.
AgentError(a) ==
    /\ proxy.claims # <<>> /\ proxy.claims[Len(proxy.claims)] = a
    /\ proxy.job.phase \in {"picked_up", "fetch", "streaming"}
    /\ proxy' = [proxy EXCEPT !.job.lines_queue = Append(@, QueueSentinel),
                              !.sent = Append(@, QueueSentinel),
                              !.job.phase = "error",
                              !.job.error = "agent",
                              !.job.done_event = TRUE]
    /\ UNCHANGED NonProxyVars

\* The handler's wait on the picked-up signal ends with the signal.
HandlerPickedUp ==
    /\ proxy.handler.pc = "wait_picked_up"
    /\ proxy.job.picked_up_event
    /\ proxy' = [proxy EXCEPT !.handler.pc = "wait_status"]
    /\ UNCHANGED NonProxyVars

\* The handler's wait on the status signal ends with the signal.
HandlerStatus ==
    /\ proxy.handler.pc = "wait_status"
    /\ proxy.job.status_event
    /\ proxy' = [proxy EXCEPT !.handler.pc = "draining"]
    /\ UNCHANGED NonProxyVars

\* The handler takes the next item of the queue: a line is decoded (an
\* exception of the decoder ends the request with 500), the sentinel ends
\* the draining with the answer.
HandlerDrain ==
    /\ proxy.handler.pc = "draining"
    /\ proxy.job.lines_queue # <<>>
    /\ LET item == Head(proxy.job.lines_queue)
           st == DecodeLine(proxy.handler.st, item)
       IN  proxy' =
             IF item = QueueSentinel
             THEN [proxy EXCEPT
                     !.job.lines_queue = Tail(@),
                     !.handler.pc = "answered",
                     !.handler.result =
                         ProxyResult(proxy.job.status_code, proxy.handler.st)]
             ELSE IF st.aborted
             THEN [proxy EXCEPT
                     !.job = MarkOrphan([@ EXCEPT !.lines_queue = Tail(@)]),
                     !.consumed = Append(@, item),
                     !.handler = [pc |-> "failed", st |-> st,
                                  result |-> ErrorResp(500, "internal")]]
             ELSE [proxy EXCEPT
                     !.job.lines_queue = Tail(@),
                     !.consumed = Append(@, item),
                     !.handler.st = st]
    /\ UNCHANGED NonProxyVars

HandlerTimeoutOnlyClaimMutant(code) ==
    /\ proxy.handler.pc = "wait_picked_up" /\ ~proxy.job.picked_up_event
    /\ proxy' = [proxy EXCEPT
                   !.job = MarkOrphan(@),
                   !.handler.pc = "failed",
                   !.handler.result = ErrorResp(code, "proxy_unavailable")]
    /\ UNCHANGED NonProxyVars

\* A bounded wait of the handler runs out (the picked-up signal, the status
\* signal or the next item of the queue has not come): the request fails
\* with ProxyUnavailable, 504 or 502, and the job is given up.
HandlerTimeout(code) ==
    /\ \/ proxy.handler.pc = "wait_picked_up" /\ ~proxy.job.picked_up_event
       \/ proxy.handler.pc = "wait_status" /\ ~proxy.job.status_event
       \/ proxy.handler.pc = "draining" /\ proxy.job.lines_queue = <<>>
    /\ proxy' = [proxy EXCEPT
                   !.job = MarkOrphan(@),
                   !.handler.pc = "failed",
                   !.handler.result = ErrorResp(code, "proxy_unavailable")]
    /\ UNCHANGED NonProxyVars

\* The request task is cancelled while it waits: the job is given up.
HandlerCancel ==
    /\ proxy.handler.pc \in {"wait_picked_up", "wait_status", "draining"}
    /\ proxy' = [proxy EXCEPT !.job = MarkOrphan(@),
                              !.handler.pc = "cancelled"]
    /\ UNCHANGED NonProxyVars

(***************************************************************************)
(* Calls of the pure functions.                                            *)
(***************************************************************************)
NonCallVars == << now, api_keys, auth_token, usage_stats, model_usage_stats,
                  models, api_key_usage, chat_sessions, req, resp, nreq, hist,
                  dec, proxy, cf_clearance, acq, dashboard_sessions >>

\* Entries of models.json.  text is capabilities.outputCapabilities.text;
\* None stands for an entry without that key (organization, publicName,
\* capabilities); text is "true" or "false" for the JSON values.
SampleCatalogEntries ==
    { [id |-> "id-1", publicName |-> "m1", organization |-> "org1", text |-> "true"],
      [id |-> "id-2", publicName |-> "m2", organization |-> None, text |-> "true"],
      [id |-> "id-3", publicName |-> "img", organization |-> "org3", text |-> "false"],
      [id |-> "id-4", publicName |-> None, organization |-> "org4", text |-> "true"],
      [id |-> "id-5", publicName |-> "m5", organization |-> "org5", text |-> None] }

SampleCatalogs == SeqsUpTo(SampleCatalogEntries, 2)

ListModelsDataKeepsNamelessMutant(ms, t) ==
    LET text_models == SelectSeq(ms, LAMBDA m : m.text = "true")
    IN  [i \in 1..Len(text_models) |->
           [id |-> text_models[i].publicName, object |-> "model", created |-> t,
            owned_by |-> IF text_models[i].organization = None THEN "lmarena"
                         ELSE text_models[i].organization]]

\* The "data" list of GET /api/v1/models at time t.
ListModelsData(ms, t) ==
    LET text_models == SelectSeq(ms, LAMBDA m : m.text = "true")
        named == SelectSeq(text_models, LAMBDA m : m.publicName \notin {None, ""})
    IN  [i \in 1..Len(named) |->
           [id |-> named[i].publicName, object |-> "model", created |-> t,
            owned_by |-> IF named[i].organization = None THEN "lmarena"
                         ELSE named[i].organization]]

\* The listing of list_models for the catalog ms (the rate limiter that
\* runs before it is ListModels).
ListModelsCall(ms) ==
    /\ Len(calls) < MaxPureCalls
    /\ calls' = Append(calls, [fn |-> "list_models", args |-> <<ms>>,
                               out |-> ListModelsData(ms, now)])
    /\ UNCHANGED NonCallVars

\* uuid7() is called when the clock reads timestamp_ms and the draws are
\* rand_a and rand_b; the clock has not gone back since the call before.
Uuid7Call(timestamp_ms, rand_a, rand_b) ==
    /\ Len(calls) < MaxCalls
    /\ calls # <<>> => ~IntLess(timestamp_ms, calls[Len(calls)].args[1])
    /\ calls' = Append(calls,
                       [fn |-> "uuid7",
                        args |-> <<timestamp_ms, rand_a, rand_b>>,
                        out |-> Uuid7String(timestamp_ms, rand_a, rand_b)])
    /\ UNCHANGED NonCallVars

(***************************************************************************)
(* Cookie and origin scoping (spec section 4.2; main.py has none of these  *)
(* functions, the tests name them).                                        *)
(***************************************************************************)
\* An origin is a scheme and a host, the host a sequence of labels.
Origin(scheme, host) == [scheme |-> scheme, host |-> host]

\* The canonical production origin and its sibling alias.
CanonicalOrigin == Origin("https", <<"lmarena", "ai">>)

AliasOrigin == Origin("https", <<"arena", "ai">>)

\* No origin, where a cookie spec has no url.
NoneOrigin == Origin("", <<>>)

\* URLs: None, "", about:blank, and scheme://host/path.
Url(kind, scheme, host, path) ==
    [kind |-> kind, scheme |-> scheme, host |-> host, path |-> path]

SampleUrls ==
    { Url("none", "", <<>>, ""), Url("blank", "", <<>>, ""),
      Url("about", "about", <<>>, "blank"),
      Url("url", "https", <<"lmarena", "ai">>, "/?mode=direct"),
      Url("url", "https", <<"arena", "ai">>, "/nextjs-api/sign-up"),
      Url("url", "https", <<"www", "arena", "ai">>, "/foo"),
      Url("url", "https", <<"www", "lmarena", "ai">>, "/"),
      Url("url", "https", <<"example", "com">>, "/x") }

\* The URLs of the arena family.
ArenaUrls ==
    {u \in SampleUrls : u.kind # "url" \/ u.host # <<"example", "com">>}

DetectArenaOriginKeepsWwwMutant(url) ==
    IF url.kind # "url" THEN CanonicalOrigin
    ELSE Origin(url.scheme, url.host)

\* _detect_arena_origin: the canonical production origin for no URL; the
\* bare form for a host of the production domain or its alias, with or
\* without www.; the URL's own origin for another host.
DetectArenaOrigin(url) ==
    IF url.kind # "url" THEN CanonicalOrigin
    ELSE LET host == IF url.host # <<>> /\ url.host[1] = "www"
                     THEN Tail(url.host) ELSE url.host
         IN  IF host \in {CanonicalOrigin.host, AliasOrigin.host}
             THEN Origin("https", host)
             ELSE Origin(url.scheme, url.host)

\* _arena_origin_candidates: the detected origin, then its sibling.
ArenaOriginCandidates(url) ==
    LET detected == DetectArenaOrigin(url)
    IN  << detected,
           IF detected = AliasOrigin THEN CanonicalOrigin ELSE AliasOrigin >>

\* A cookie spec: scoped by url or by domain (the other one is absent).
CookieSpec(name, value, url, domain) ==
    [name |-> name, value |-> value, url |-> url, domain |-> domain, path |-> "/"]

\* _arena_auth_cookie_specs: one spec per origin candidate, by url.
ArenaAuthCookieSpecs(value, page_url) ==
    LET origins == ArenaOriginCandidates(page_url)
    IN  [i \in 1..Len(origins) |->
           CookieSpec("arena-auth-prod-v1", value, origins[i], <<>>)]

ProvisionalUserIdCookieSpecsByUrlMutant(value, page_url) ==
    LET origins == ArenaOriginCandidates(page_url)
    IN  [i \in 1..Len(origins) |->
           CookieSpec("provisional_user_id", value, origins[i], <<>>)]

\* _provisional_user_id_cookie_specs: per origin candidate one spec by url
\* and one by the wildcard parent domain (".host").
ProvisionalUserIdCookieSpecs(value, page_url) ==
    LET origins == ArenaOriginCandidates(page_url)
    IN  [i \in 1..(2 * Len(origins)) |->
           LET origin == origins[(i + 1) \div 2]
           IN  IF i % 2 = 1
               THEN CookieSpec("provisional_user_id", value, origin, <<>>)
               ELSE CookieSpec("provisional_user_id", value, NoneOrigin,
                               <<".">> \o origin.host)]

\* A cookie of a browser context.
Cookie(name, domain, path, value) ==
    [name |-> name, domain |-> domain, path |-> path, value |-> value]

SameKey(c, d) == c.name = d.name /\ c.domain = d.domain /\ c.path = d.path

\* What context.cookies(origin) returns, per origin.
SampleJars ==
    { <<>>,
      << Cookie("a", "lmarena.ai", "/", "v1"), Cookie("b", "lmarena.ai", "/", "b1") >>,
      << Cookie("a", "lmarena.ai", "/", "v2"), Cookie("c", "arena.ai", "/", "c1"),
         Cookie("a", "lmarena.ai", "/x", "v3"), Cookie("c", "arena.ai", "/", "c2") >> }

SampleContexts == [{CanonicalOrigin, AliasOrigin} -> SampleJars]

RECURSIVE DedupeCookiesKeepsLastMutant(_, _)
DedupeCookiesKeepsLastMutant(kept, rest) ==
    IF rest = <<>> THEN kept
    ELSE DedupeCookiesKeepsLastMutant(
             [i \in 1..Len(kept) |->
                 IF SameKey(kept[i], Head(rest)) THEN Head(rest) ELSE kept[i]]
             \o (IF \E i \in 1..Len(kept) : SameKey(kept[i], Head(rest))
                 THEN <<>> ELSE <<Head(rest)>>),
             Tail(rest))

\* The deduplication by (name, domain, path): a cookie whose key was seen
\* is dropped.
RECURSIVE DedupeCookies(_, _)
DedupeCookies(kept, rest) ==
    IF rest = <<>> THEN kept
    ELSE DedupeCookies(
             IF \E i \in 1..Len(kept) : SameKey(kept[i], Head(rest))
             THEN kept ELSE Append(kept, Head(rest)),
             Tail(rest))

\* The cookies read origin by origin, in candidate order.
RECURSIVE ReadCookies(_, _)
ReadCookies(ctx, origins) ==
    IF origins = <<>> THEN <<>>
    ELSE ctx[Head(origins)] \o ReadCookies(ctx, Tail(origins))

\* _get_arena_context_cookies
GetArenaContextCookies(ctx, page_url) ==
    DedupeCookies(<<>>, ReadCookies(ctx, ArenaOriginCandidates(page_url)))

\* A call of _detect_arena_origin and _arena_origin_candidates.
OriginCall(url) ==
    /\ Len(calls) < MaxPureCalls
    /\ calls' = Append(calls, [fn |-> "origin", args |-> <<url>>,
                               out |-> [detected |-> DetectArenaOrigin(url),
                                        candidates |-> ArenaOriginCandidates(url)]])
    /\ UNCHANGED NonCallVars

\* A call of the two cookie-spec builders.
CookieSpecsCall(value, page_url) ==
    /\ Len(calls) < MaxPureCalls
    /\ calls' = Append(calls,
                       [fn |-> "cookie_specs", args |-> <<value, page_url>>,
                        out |-> [auth |-> ArenaAuthCookieSpecs(value, page_url),
                                 provisional |->
                                     ProvisionalUserIdCookieSpecs(value, page_url)]])
    /\ UNCHANGED NonCallVars

\* A call of _get_arena_context_cookies on a context.
ContextCookiesCall(ctx, page_url) ==
    /\ Len(calls) < MaxPureCalls
    /\ calls' = Append(calls,
                       [fn |-> "context_cookies", args |-> <<ctx, page_url>>,
                        out |-> GetArenaContextCookies(ctx, page_url)])
    /\ UNCHANGED NonCallVars

(***************************************************************************)
(* Turnstile fallback (spec section 4.4; main.py has no click_turnstile,   *)
(* the test names it).                                                     *)
(***************************************************************************)
\* A page with at most one challenge widget; the widget may expose a
\* content frame and a bounding box <<x, y, width, height>> (<<>>: none).
TurnstilePage(widget, frame, box) ==
    [widget |-> widget, frame |-> frame, box |-> box]

SampleBoxes == { <<>>, <<10, 20, 30, 40>>, <<0, 0, 2, 2>>, <<5, 5, 0, 10>> }

TurnstilePages ==
    {TurnstilePage(FALSE, FALSE, <<>>)}
    \cup {TurnstilePage(TRUE, f, b) : f \in BOOLEAN, b \in SampleBoxes}

\* The centre of a bounding box.
BoxCentre(box) == << box[1] + box[3] \div 2, box[2] + box[4] \div 2 >>

\* What a call did: the boolean returned, the element's own clicks and the
\* mouse clicks.
TurnstileOutcome(ok, clicked, mouse_clicks) ==
    [ok |-> ok, clicked |-> clicked, mouse_clicks |-> mouse_clicks]

ClickTurnstileClicksBothMutant(page, inner) ==
    IF ~page.widget THEN TurnstileOutcome(FALSE, 0, <<>>)
    ELSE IF page.frame THEN TurnstileOutcome(inner, 0, <<>>)
    ELSE IF page.box # <<>>
         THEN TurnstileOutcome(TRUE, 1, <<BoxCentre(page.box)>>)
    ELSE TurnstileOutcome(TRUE, 1, <<>>)

\* click_turnstile: no widget, False; a content frame, nothing further here
\* (inner: what the frame-internal interaction gave); a bounding box, one
\* mouse click at its centre; otherwise the element's own click, forced.
ClickTurnstile(page, inner) ==
    IF ~page.widget THEN TurnstileOutcome(FALSE, 0, <<>>)
    ELSE IF page.frame THEN TurnstileOutcome(inner, 0, <<>>)
    ELSE IF page.box # <<>>
         THEN TurnstileOutcome(TRUE, 0, <<BoxCentre(page.box)>>)
    ELSE TurnstileOutcome(TRUE, 1, <<>>)

\* A call of click_turnstile on a page.
TurnstileCall(page, inner) ==
    /\ Len(calls) < MaxPureCalls
    /\ calls' = Append(calls, [fn |-> "click_turnstile", args |-> <<page>>,
                               out |-> ClickTurnstile(page, inner)])
    /\ UNCHANGED NonCallVars

(***************************************************************************)
(* Credential acquisition (get_initial_data) and the dashboard's writes.   *)
(***************************************************************************)
NonConfigVars == << now, api_key_usage, chat_sessions, req, resp, nreq, hist,
                    dec, proxy, calls, dashboard_sessions >>

\* What no administrative request of the dashboard touches.
NonDashVars == << now, api_key_usage, chat_sessions, req, resp, nreq, dec, proxy,
                  calls, dashboard_sessions >>

\* next((c for c in cookies if c["name"] == name), None)
FirstCookie(cookies, name) ==
    IF \E i \in 1..Len(cookies) : cookies[i].name = name
    THEN cookies[CHOOSE i \in 1..Len(cookies) :
                     /\ cookies[i].name = name
                     /\ \A j \in 1..(i - 1) : cookies[j].name # name]
    ELSE NoneCookie

\* get_config() as the document it returns.
GetConfig == ConfigDoc(auth_token, api_keys, cf_clearance)

AcqConfigDefaultsMutant(t) == ConfigDoc(<<>>, <<>>, NoClearance)

\* config = get_config() at line 170: read after the last await.
AcqConfig(t) == GetConfig

DocAfterCookiesClearsMutant(doc, config, cookie) ==
    IF cookie # NoneCookie
    THEN [config EXCEPT !.cf_clearance = cookie.value]
    ELSE [doc EXCEPT !.cf_clearance = NoClearance]

\* Lines 171-176: the document on disk (doc) after the cookie was looked
\* for; config is what get_config() returned.
DocAfterCookies(doc, config, cookie) ==
    IF cookie # NoneCookie
    THEN [config EXCEPT !.cf_clearance = cookie.value]
    ELSE doc

\* Lines 180-192: models.json after the page was searched.
CatalogAfter(ms, page) ==
    IF page.found /\ page.parses THEN page.models ELSE ms

\* An await raises: in page.content() the inner except (191) catches, else
\* the outer one (194); either way the function returns.
AcqAfterException(pc) == "returned"

\* save_config(config) of a document, with the get_config() before it: the
\* in-memory counters are reloaded from the file and written back.
SaveDoc(doc) ==
    /\ auth_token' = doc.auth_token
    /\ api_keys' = doc.api_keys
    /\ cf_clearance' = doc.cf_clearance
    /\ model_usage_stats' = GetConfigStats(usage_stats)
    /\ usage_stats' = SaveConfigStats(GetConfigStats(usage_stats))

\* get_initial_data() is called: the browser is started.
AcqStarted(t) ==
    /\ acq.tasks[t].pc \in {"idle", "returned"}
    /\ acq.runs < MaxAcqRuns
    /\ acq' = [acq EXCEPT !.runs = @ + 1,
                          !.tasks[t] = [AcqTaskIdle EXCEPT !.pc = "navigating"]]
    /\ UNCHANGED << api_keys, auth_token, cf_clearance, usage_stats,
                    model_usage_stats, models >>

AcqStart(t) == AcqStarted(t) /\ UNCHANGED NonConfigVars

\* new_page() and goto() have returned.
AcqNavigated(t) ==
    /\ acq.tasks[t].pc = "navigating"
    /\ acq' = [acq EXCEPT !.tasks[t].pc = "challenge"]
    /\ UNCHANGED << NonConfigVars, api_keys, auth_token, cf_clearance, usage_stats,
                    model_usage_stats, models >>

\* wait_for_function returns (passed) or raises, on the timeout or else.
AcqChallenge(t, passed) ==
    /\ acq.tasks[t].pc = "challenge"
    /\ acq' = IF passed
              THEN [acq EXCEPT !.tasks[t].pc = "sleeping"]
              ELSE [acq EXCEPT !.tasks[t].pc = "returned",
                               !.tasks[t].why = "challenge"]
    /\ UNCHANGED << NonConfigVars, api_keys, auth_token, cf_clearance, usage_stats,
                    model_usage_stats, models >>

\* asyncio.sleep(5) has returned.
AcqSlept(t) ==
    /\ acq.tasks[t].pc = "sleeping"
    /\ acq' = [acq EXCEPT !.tasks[t].pc = "cookies"]
    /\ UNCHANGED << NonConfigVars, api_keys, auth_token, cf_clearance, usage_stats,
                    model_usage_stats, models >>

\* page.context.cookies() has returned: the cookie is looked for, the
\* document is read and, with a cookie, written.
AcqCookies(t, cookies) ==
    /\ acq.tasks[t].pc = "cookies"
    /\ LET cookie == FirstCookie(cookies, "cf_clearance")
           doc == DocAfterCookies(GetConfig, AcqConfig(t), cookie)
       IN  /\ auth_token' = doc.auth_token
           /\ api_keys' = doc.api_keys
           /\ cf_clearance' = doc.cf_clearance
           /\ model_usage_stats' = GetConfigStats(usage_stats)
           /\ usage_stats' = IF cookie # NoneCookie
                             THEN SaveConfigStats(GetConfigStats(usage_stats))
                             ELSE usage_stats
           /\ acq' = [acq EXCEPT
                        !.tasks[t].pc = "content",
                        !.tasks[t].cf_clearance_cookie = cookie,
                        !.written.cf_clearance =
                            IF cookie # NoneCookie THEN cookie.value ELSE @]
    /\ UNCHANGED << NonConfigVars, models >>

\* page.content() has returned: the catalog is searched for and saved.
AcqContent(t, page) ==
    /\ acq.tasks[t].pc = "content"
    /\ models' = CatalogAfter(models, page)
    /\ acq' = [acq EXCEPT !.tasks[t].pc = "returned",
                          !.tasks[t].match = page.found,
                          !.tasks[t].why = IF page.found /\ page.parses
                                           THEN "complete" ELSE "catalog"]
    /\ UNCHANGED << NonConfigVars, api_keys, auth_token, cf_clearance, usage_stats,
                    model_usage_stats >>

\* An await of the task raises.
AcqRaise(t) ==
    /\ acq.tasks[t].pc \in {"navigating", "cookies", "content"}
    /\ acq' = [acq EXCEPT !.tasks[t].pc = AcqAfterException(acq.tasks[t].pc),
                          !.tasks[t].why = "exception"]
    /\ UNCHANGED << NonConfigVars, api_keys, auth_token, cf_clearance, usage_stats,
                    model_usage_stats, models >>

\* config.setdefault("password", "admin"): no code writes the password.
ConfigPassword == "admin"

\* Passwords typed into the login form, the uuid4 draws of a session id,
\* and the session_id cookies of requests (None: no cookie).
SamplePasswords == {"admin", "guess"}

SampleSessionIds == {"s1", "s2"}

SampleSessionCookies == SampleSessionIds \cup {None, ""}

GetCurrentSessionAnyCookieMutant(cookie) == cookie \notin {None, ""}

\* get_current_session: is there a session for the request's cookie?
GetCurrentSession(cookie) ==
    cookie \notin {None, ""} /\ cookie \in dashboard_sessions

\* hist.dash after an administrative request.
DashRecord(op, cookie) ==
    IF cookie \in dashboard_sessions THEN hist
    ELSE [hist EXCEPT !.dash = [op |-> op, cookie |-> cookie, password |-> None]]

\* return RedirectResponse(url="/login"): nothing is read or written.
RedirectToLogin(op, cookie) ==
    /\ hist' = DashRecord(op, cookie)
    /\ UNCHANGED << NonDashVars, api_keys, auth_token, cf_clearance, usage_stats,
                    model_usage_stats, models, acq >>

\* POST /login: get_config(), then a session under a new uuid4 when the
\* password is the configured one.
LoginSubmit(password, session_id) ==
    /\ model_usage_stats' = GetConfigStats(usage_stats)
    /\ dashboard_sessions' = IF password = ConfigPassword
                             THEN dashboard_sessions \cup {session_id}
                             ELSE dashboard_sessions
    /\ hist' = [hist EXCEPT !.dash =
                  [op |-> "login",
                   cookie |-> IF password = ConfigPassword THEN session_id ELSE None,
                   password |-> password]]
    /\ UNCHANGED << now, api_keys, auth_token, usage_stats, models, api_key_usage,
                    chat_sessions, req, resp, nreq, dec, proxy, cf_clearance, acq,
                    calls >>

\* GET /logout: the session of the request's cookie is deleted.
Logout(cookie) ==
    /\ dashboard_sessions' = dashboard_sessions \ {cookie}
    /\ hist' = [hist EXCEPT !.dash = [op |-> "logout", cookie |-> cookie,
                                      password |-> None]]
    /\ UNCHANGED << now, api_keys, auth_token, usage_stats, model_usage_stats,
                    models, api_key_usage, chat_sessions, req, resp, nreq, dec,
                    proxy, cf_clearance, acq, calls >>

\* POST /update-auth-token
UpdateAuthToken(cookie, form) ==
    IF ~GetCurrentSession(cookie) THEN RedirectToLogin("update-auth-token", cookie)
    ELSE /\ SaveDoc([GetConfig EXCEPT !.auth_token = Strip(form)])
         /\ acq' = [acq EXCEPT !.written.auth_token = Strip(form)]
         /\ hist' = DashRecord("update-auth-token", cookie)
         /\ UNCHANGED << NonDashVars, models >>

\* POST /create-key; uuid4 gives a key not in use.  The "created" entry of
\* the key is left out.
CreateKey(cookie, form) ==
    IF ~GetCurrentSession(cookie) THEN RedirectToLogin("create-key", cookie)
    ELSE /\ Len(api_keys) < MaxKeys
         /\ \A i \in 1..Len(api_keys) : api_keys[i].key # form.key
         /\ LET rpm == IF form.rpm > 1000 THEN 1000 ELSE form.rpm
                new_key == [name |-> form.name, key |-> form.key,
                            rpm |-> IF rpm < 1 THEN 1 ELSE rpm]
            IN  /\ SaveDoc([GetConfig EXCEPT !.api_keys = Append(@, new_key)])
                /\ acq' = [acq EXCEPT !.written.api_keys = Append(@, new_key)]
         /\ hist' = DashRecord("create-key", cookie)
         /\ UNCHANGED << NonDashVars, models >>

\* POST /delete-key
DeleteKey(cookie, key_id) ==
    IF ~GetCurrentSession(cookie) THEN RedirectToLogin("delete-key", cookie)
    ELSE /\ SaveDoc([GetConfig EXCEPT
                       !.api_keys = SelectSeq(@, LAMBDA k : k.key # key_id)])
         /\ acq' = [acq EXCEPT
                      !.written.api_keys = SelectSeq(@, LAMBDA k : k.key # key_id)]
         /\ hist' = DashRecord("delete-key", cookie)
         /\ UNCHANGED << NonDashVars, models >>

\* POST /refresh-tokens: get_initial_data() is awaited.
RefreshTokens(cookie) ==
    IF ~GetCurrentSession(cookie) THEN RedirectToLogin("refresh-tokens", cookie)
    ELSE /\ AcqStarted("refresh")
         /\ hist' = DashRecord("refresh-tokens", cookie)
         /\ UNCHANGED NonDashVars

(***************************************************************************)
(* Specifications.                                                         *)
(***************************************************************************)
\* The headers and bodies of the chat specification: one valid key, one
\* conversation id, history messages with a role.
ChatHeaders == { <<"Bearer ", " ", "sk2", " ">>, <<"Bearer ", "nope">>, <<"sk2">> }

\* The upstream outcomes of the chat specification: one of each status.
ChatOutcomes ==
    {oc \in SampleOutcomes :
        oc.lines \in { <<>>, << <<"denied">> >>,
                       << Line("a0:", "\"Hi\""),
                          Line("ad:", "{\"finishReason\":\"stop\"}") >>,
                       << Line("a3:", "\"boom\"") >>,
                       << Line("a0:", "7") >> }}

ChatBodies ==
    {b \in SampleBodies :
        /\ b.conversation_id # Absent \/ ~b.valid
        /\ ~b.stream
        /\ \A i \in 1..Len(b.messages) : b.messages[i].role # None}

\* Chat-completion requests, up to two at a time.
Next ==
    \/ \E s \in Slots, h \in ChatHeaders : Admit(s, h)
    \/ \E s \in Slots : Handle(s, ChatBodies)
    \/ \E s \in Slots : Complete(s, ChatOutcomes)
    \/ \E a \in Agents : UserscriptPoll(a)

Spec == Init /\ [][Next]_vars

\* The rate limiter alone, driven by GET /api/v1/models.
NextRate ==
    \/ \E h \in SampleHeaders : ListModels(h)
    \/ \E d \in TickSteps : Tick(d)

SpecRate == Init /\ [][NextRate]_vars

\* The decoder alone, on every body of up to MaxLines sample lines.
InitDecode ==
    /\ now = 0
    /\ api_keys = SampleApiKeys
    /\ auth_token = <<"tok">>
    /\ usage_stats = [m \in ModelNames |-> 0]
    /\ model_usage_stats = usage_stats
    /\ models = SampleModels
    /\ api_key_usage = [k \in KeyStrs |-> <<>>]
    /\ chat_sessions = [k \in KeyStrs |-> [c \in ConvIds |-> NoneSession]]
    /\ req = [s \in Slots |-> IdleReq]
    /\ resp = NoneResp
    /\ nreq = 0
    /\ hist = HistInit(usage_stats)
    /\ \E b \in SeqsUpTo(SampleLines, MaxLines) : dec = [DecIdle EXCEPT !.lines = b]
    /\ proxy = ProxyIdle
    /\ cf_clearance = NoClearance
    /\ acq = AcqIdle(auth_token, api_keys, cf_clearance)
    /\ calls = <<>>
    /\ dashboard_sessions = {}

NextDecode == DecodeStep \/ DecodeEnd

SpecDecode == InitDecode /\ [][NextDecode]_vars

\* Completions alone: one valid key and model, bodies with and without
\* "stream", upstream texts with and without surrounding blanks.
CompletionHeaders == { <<"Bearer ", "sk2">> }

CompletionBodies ==
    {b \in SampleBodies :
        /\ b.valid /\ b.model = "m1" /\ b.conversation_id = "c1"
        /\ b.messages = << Msg("user", <<"h", "i">>) >>}

CompletionOutcomes ==
    {oc \in SampleOutcomes :
        oc.lines \in { << Line("a0:", "\"Hi\""),
                          Line("ad:", "{\"finishReason\":\"stop\"}") >>,
                       << Line("a3:", "\"boom\"") >>,
                       << Line("a0:", "\" \"") >>,
                       << Line("a0:", "\"Yo \""), Line("a3:", "\"boom\"") >>,
                       << Line("a3:", "\"boom\""), Line("a0:", "\"Hi\"") >> }}

NextCompletion ==
    \/ \E s \in Slots, h \in CompletionHeaders : Admit(s, h)
    \/ \E s \in Slots : Handle(s, CompletionBodies)
    \/ \E s \in Slots : Complete(s, CompletionOutcomes)

SpecCompletion == Init /\ [][NextCompletion]_vars

\* Chat completions of two API keys, one request at a time, with the
\* conversation id c1 or with none, answered 200 or 502.
SessionHeaders == { <<"Bearer ", "sk1">>, <<"Bearer ", "sk2">> }

SessionBodies ==
    {b \in SampleBodies :
        /\ b.valid /\ b.model = "m1" /\ ~b.stream
        /\ b.messages = << Msg("user", <<"h", "i">>) >>}

SessionOutcomes ==
    {oc \in SampleOutcomes :
        oc.lines \in { << Line("a0:", "\"Hi\""),
                          Line("ad:", "{\"finishReason\":\"stop\"}") >>,
                       << Line("a3:", "\"boom\"") >> }}

NextSessions ==
    \/ \E h \in SessionHeaders : Admit(1, h)
    \/ Handle(1, SessionBodies)
    \/ Complete(1, SessionOutcomes)

SpecSessions == Init /\ [][NextSessions]_vars

\* The limiter in front of chat completions that fail or succeed later:
\* every sample header, bodies answered 400, 404 and 500 before the
\* upstream call, and every upstream outcome.
AdmissionBodies ==
    {b \in SampleBodies :
        /\ ~b.stream
        /\ \/ ~b.valid
           \/ /\ b.conversation_id = "c1"
              /\ b.model \in {"m1", "mX"}
              /\ b.messages \in { <<>>, << Msg("user", <<"h", "i">>) >> }}

NextAdmission ==
    \/ \E h \in SampleHeaders : Admit(1, h)
    \/ Handle(1, AdmissionBodies)
    \/ Complete(1, ChatOutcomes)

SpecAdmission == Init /\ [][NextAdmission]_vars

\* The requests served next to the writers of config.json: GET
\* /api/v1/models with a key the dashboard may delete.
ConfigHeaders == { <<"Bearer ", "sk1">> }

\* The writers of config.json and models.json, the two callers of
\* get_initial_data() and the dashboard, and a reader of both.
NextConfig ==
    \/ \E h \in ConfigHeaders : ListModels(h)
    \/ LoginSubmit(ConfigPassword, "s1")
    \/ AcqStart("startup")
    \/ \E cookie \in dashboard_sessions : RefreshTokens(cookie)
    \/ \E t \in AcqTasks : AcqNavigated(t)
    \/ \E t \in AcqTasks, passed \in BOOLEAN : AcqChallenge(t, passed)
    \/ \E t \in AcqTasks : AcqSlept(t)
    \/ \E t \in AcqTasks, cookies \in SampleCookieJars : AcqCookies(t, cookies)
    \/ \E t \in AcqTasks, page \in SamplePages : AcqContent(t, page)
    \/ \E t \in AcqTasks : AcqRaise(t)
    \/ \E cookie \in dashboard_sessions, form \in SampleTokenForms :
          UpdateAuthToken(cookie, form)
    \/ \E cookie \in dashboard_sessions, form \in SampleKeyForms :
          CreateKey(cookie, form)
    \/ \E cookie \in dashboard_sessions, key_id \in SampleKeyIds :
          DeleteKey(cookie, key_id)

SpecConfig == Init /\ [][NextConfig]_vars

\* The dashboard: logins, logouts and the administrative requests with any
\* cookie, and the refresh they start.
NextDashboard ==
    \/ \E password \in SamplePasswords, session_id \in SampleSessionIds :
          LoginSubmit(password, session_id)
    \/ \E cookie \in SampleSessionCookies : Logout(cookie)
    \/ \E cookie \in SampleSessionCookies : UpdateAuthToken(cookie, <<"tok2">>)
    \/ \E cookie \in SampleSessionCookies, form \in SampleKeyForms :
          CreateKey(cookie, form)
    \/ \E cookie \in SampleSessionCookies : DeleteKey(cookie, "sk1")
    \/ \E cookie \in SampleSessionCookies : RefreshTokens(cookie)
    \/ AcqNavigated("refresh")
    \/ AcqChallenge("refresh", TRUE)
    \/ AcqSlept("refresh")
    \/ \E cookies \in SampleCookieJars : AcqCookies("refresh", cookies)
    \/ \E page \in SamplePages : AcqContent("refresh", page)

SpecDashboard == Init /\ [][NextDashboard]_vars

\* The origin and cookie functions over the sample URLs and contexts.
NextOrigin ==
    \/ \E url \in SampleUrls : OriginCall(url)
    \/ \E page_url \in ArenaUrls : CookieSpecsCall("token-1", page_url)
    \/ \E ctx \in SampleContexts :
          \E page_url \in {u \in ArenaUrls : u.path \in {"/?mode=direct", "/foo"}} :
             ContextCookiesCall(ctx, page_url)

SpecOrigin == Init /\ [][NextOrigin]_vars

\* The Turnstile fallback over the sample pages.
NextTurnstile ==
    \E page \in TurnstilePages, inner \in BOOLEAN : TurnstileCall(page, inner)

SpecTurnstile == Init /\ [][NextTurnstile]_vars

\* The listing over the sample catalogs.
NextModels == \E ms \in SampleCatalogs : ListModelsCall(ms)

SpecModels == Init /\ [][NextModels]_vars

\* uuid7() called up to MaxCalls times in a row.
NextUuid ==
    \E timestamp_ms \in SampleTimestamps, rand_a \in SampleRandA,
       rand_b \in SampleRandB : Uuid7Call(timestamp_ms, rand_a, rand_b)

SpecUuid == Init /\ [][NextUuid]_vars

\* The job-queue handoff alone: one job, its handler and the agents.
InitProxy ==
    /\ now = 0
    /\ api_keys = SampleApiKeys
    /\ auth_token = <<>>
    /\ usage_stats = [m \in ModelNames |-> 0]
    /\ model_usage_stats = usage_stats
    /\ models = SampleModels
    /\ api_key_usage = [k \in KeyStrs |-> <<>>]
    /\ chat_sessions = [k \in KeyStrs |-> [c \in ConvIds |-> NoneSession]]
    /\ req = [s \in Slots |-> IdleReq]
    /\ resp = NoneResp
    /\ nreq = 0
    /\ hist = HistInit(usage_stats)
    /\ dec = DecIdle
    /\ proxy = ProxyIdle
    /\ cf_clearance = NoClearance
    /\ acq = AcqIdle(auth_token, api_keys, cf_clearance)
    /\ calls = <<>>
    /\ dashboard_sessions = {}

HandlerMove ==
    \/ HandlerPickedUp
    \/ HandlerStatus
    \/ HandlerDrain
    \/ \E code \in {502, 504} : HandlerTimeout(code)

NextProxy ==
    \/ \E a \in Agents : UserscriptPoll(a)
    \/ CreateJob
    \/ \E a \in Agents : AgentFetch(a)
    \/ \E a \in Agents, code \in ProxyStatusCodes : AgentStatus(a, code)
    \/ \E a \in Agents, line \in ProxySampleLines : AgentLine(a, line)
    \/ \E a \in Agents : AgentDone(a)
    \/ \E a \in Agents : AgentError(a)
    \/ HandlerMove
    \/ HandlerCancel

SpecProxy == InitProxy /\ [][NextProxy]_vars

\* The same, with the handler's steps and timeouts eventually taken: each of
\* its waits is bounded.
SpecProxyLive == InitProxy /\ [][NextProxy]_vars /\ WF_vars(HandlerMove)

(***************************************************************************)
(* Properties.                                                             *)
(***************************************************************************)
\* The requests of key k the limiter admitted in the 60 seconds ending at t
\* (t included, t - 60 excluded).
AdmittedInWindow(k, t) ==
    {i \in 1..Len(hist.admitted[k]) :
        hist.admitted[k][i] <= t /\ t - hist.admitted[k][i] < RateWindow}

LimitOf(k) == RateLimitOf(api_keys[KeyIndex(api_keys, <<k>>)])

C2_LastMessageIdIsLastAcked ==
    \A k \in KeyStrs, c \in ConvIds :
        /\ (chat_sessions[k][c] = NoneSession) <=> (hist.acked[k][c] = NoneId)
        /\ chat_sessions[k][c].last_message_id = hist.acked[k][c]

\* A follow-up has just been answered 200 and its assistant id is stored.
C2_Witness ==
    /\ resp.status = 200
    /\ resp.followup
    /\ chat_sessions["sk2"]["c1"].last_message_id = hist.acked["sk2"]["c1"]
    /\ hist.acked["sk2"]["c1"] # NoneId

\* Slot s's request ends in this step.
Ends(s) == req[s].pc \in {"admitted", "posted"} /\ req'[s].pc = "idle"

\* C3: a step in which a request ends in an error leaves the session
\* registry unchanged, and the registry changes only in a step in which a
\* request that was waiting for the upstream is answered 200.
C3_ErrorLeavesSessions ==
    [][ /\ \A s \in Slots :
            Ends(s) /\ resp'.status # 200 => chat_sessions' = chat_sessions
        /\ chat_sessions' # chat_sessions =>
            \E s \in Slots : req[s].pc = "posted" /\ Ends(s) /\ resp'.status = 200
      ]_vars

\* A follow-up has just failed with 502 and the session is still stored.
C3_Witness ==
    /\ resp.status = 502
    /\ resp.followup
    /\ chat_sessions["sk2"]["c1"] # NoneSession
    /\ chat_sessions["sk2"]["c1"].last_message_id = hist.acked["sk2"]["c1"]

\* Slot s's handler sends its upstream request in this step.
Sends(s) == req[s].pc = "admitted" /\ req'[s].pc = "posted"

\* C4: a request sent while its conversation has no stored session goes to
\* create-evaluation with two nodes, a pending user node without parents
\* and a pending assistant node with empty content whose parent is the user
\* node, under the three ids of the request; a request sent while a session
\* is stored goes to post-to-evaluation/{stored conversation id}, and the
\* payload id and every node's evaluationSessionId are that id.
C4_RequestAddressing ==
    [][ \A s \in Slots : Sends(s) =>
          LET r == req'[s]
              p == r.request.payload
              stored == chat_sessions[r.api_key_str][r.conversation_id]
          IN  IF stored = NoneSession
              THEN /\ r.request.url.endpoint = "create-evaluation"
                   /\ Len(p.messages) = 2
                   /\ p.id = r.session_id
                   /\ p.messages[1].id = r.user_msg_id
                   /\ p.messages[1].role = "user"
                   /\ p.messages[1].status = "pending"
                   /\ p.messages[1].parentMessageIds = <<>>
                   /\ p.messages[2].id = r.model_msg_id
                   /\ p.messages[2].role = "assistant"
                   /\ p.messages[2].status = "pending"
                   /\ p.messages[2].content = <<>>
                   /\ p.messages[2].parentMessageIds = <<r.user_msg_id>>
                   /\ r.session_id.ver = UuidVersion
                   /\ r.user_msg_id.ver = UuidVersion
                   /\ r.model_msg_id.ver = UuidVersion
              ELSE /\ r.request.url =
                         [endpoint |-> "post-to-evaluation",
                          sid |-> stored.conversation_id]
                   /\ p.id = stored.conversation_id
                   /\ \A i \in 1..Len(p.messages) :
                         p.messages[i].evaluationSessionId = stored.conversation_id
      ]_vars

\* A follow-up is in flight while a first turn of the same conversation is
\* in flight too.
C4_Witness ==
    \E s, t \in Slots :
        /\ req[s].pc = "posted" /\ req[s].request.url.endpoint = "post-to-evaluation"
        /\ req[t].pc = "posted" /\ req[t].request.url.endpoint = "create-evaluation"

\* C5: in a follow-up payload the nodes form one parent chain in list order:
\* the first history node has no parents, every later history node has the
\* node before it as its only parent, the new user node's only parent is
\* the last history node, or the stored last_message_id when there is no
\* history, and the new assistant node's only parent is the new user node.
C5_ParentChain ==
    \A s \in Slots :
        req[s].pc = "posted" /\ req[s].session # NoneSession =>
          LET ms == req[s].request.payload.messages
              n == Len(ms)
          IN  /\ n >= 2
              /\ ms[n].role = "assistant" /\ ms[n].status = "pending"
              /\ ms[n].parentMessageIds = <<ms[n - 1].id>>
              /\ ms[n - 1].role = "user" /\ ms[n - 1].status = "pending"
              /\ ms[n - 1].parentMessageIds =
                    IF n > 2 THEN <<ms[n - 2].id>>
                    ELSE <<req[s].session.last_message_id>>
              /\ n > 2 => ms[1].parentMessageIds = <<>>
              /\ \A i \in 2..(n - 2) : ms[i].parentMessageIds = <<ms[i - 1].id>>

\* A follow-up with two history messages is in flight.
C5_Witness ==
    \E s \in Slots :
        /\ req[s].pc = "posted"
        /\ req[s].session # NoneSession
        /\ Len(req[s].request.payload.messages) = 4

\* C6: the first history node of a follow-up has the user-message id that
\* was sent when the session was created.
C6_FirstHistoryNodeReusesFirstUserId ==
    \A s \in Slots :
        /\ req[s].pc = "posted"
        /\ req[s].session # NoneSession
        /\ Len(req[s].request.payload.messages) > 2
        => req[s].request.payload.messages[1].id =
              hist.first_sent[req[s].api_key_str][req[s].conversation_id]

\* C7: the persisted usage counter of every model is its value at start-up
\* plus the number of completion requests that resolved the model.
C7_UsageCounted ==
    \A m \in ModelNames : usage_stats[m] = hist.usage0[m] + hist.resolved[m]

\* C8: when a turn that overlapped another turn of its conversation is
\* answered 200, the stored session is what that turn writes: the whole
\* record of a first turn, the last_message_id of a follow-up (the other
\* entries staying as stored).
C8_LastWriteWins ==
    [][ \A s \in Slots :
          req[s].pc = "posted" /\ Ends(s) /\ resp'.status = 200 /\ req[s].overlapped =>
            LET r == req[s]
                after == chat_sessions'[r.api_key_str][r.conversation_id]
                before == chat_sessions[r.api_key_str][r.conversation_id]
            IN  /\ after # NoneSession
                /\ after.last_message_id = r.model_msg_id
                /\ IF r.session = NoneSession
                   THEN after = [conversation_id |-> r.session_id,
                                 last_message_id |-> r.model_msg_id,
                                 model |-> r.model]
                   ELSE /\ after.conversation_id = before.conversation_id
                        /\ after.model = before.model
      ]_vars

\* Two overlapping turns of one conversation have both been answered 200,
\* and the stored last_message_id is the later one's.
C8_Witness ==
    /\ resp.status = 200
    /\ resp.overlapped
    /\ resp.peer_ok
    /\ \A s \in Slots : req[s].pc = "idle"
    /\ chat_sessions["sk2"]["c1"].last_message_id = hist.acked["sk2"]["c1"]

\* C9: no step removes a stored session, and every request sent for a key
\* and conversation with a stored session is a follow-up.
C9_SessionsAreKept ==
    [][ /\ \A k \in KeyStrs, c \in ConvIds :
            chat_sessions[k][c] # NoneSession => chat_sessions'[k][c] # NoneSession
        /\ \A s \in Slots :
            /\ Sends(s)
            /\ chat_sessions[req'[s].api_key_str][req'[s].conversation_id] # NoneSession
            => req'[s].request.url.endpoint = "post-to-evaluation"
      ]_vars

\* After a request of the conversation failed, a follow-up is in flight.
C9_Witness ==
    /\ resp.status \in {500, 502, 504}
    /\ resp.followup
    /\ \E s \in Slots :
          /\ req[s].pc = "posted"
          /\ req[s].request.url.endpoint = "post-to-evaluation"

\* The raw line is an a0: line.
IsTextLine(raw) == Strip(raw) # <<>> /\ Strip(raw)[1] = "a0:"

\* The concatenation of the string payloads of the a0: lines among the
\* first n lines.
RECURSIVE TextOfLines(_, _)
TextOfLines(lines, n) ==
    IF n = 0 THEN <<>>
    ELSE LET v == JsonLoads(Tail(Strip(lines[n])))
         IN  TextOfLines(lines, n - 1) \o
             (IF IsTextLine(lines[n]) /\ v.t = "str" THEN v.v ELSE <<>>)

IsErrorLine(raw) == Strip(raw) # <<>> /\ Strip(raw)[1] = "a3:"

\* The message of an a3: line: its JSON value, or the raw text after the
\* prefix when that is not JSON.
ErrorMessageOf(raw) ==
    LET v == JsonLoads(Tail(Strip(raw)))
    IN  IF v.t = "error" THEN PyStr(Tail(Strip(raw))) ELSE v

\* The index of the last a3: line among the first n lines, 0 when none.
RECURSIVE LastErrorLine(_, _)
LastErrorLine(lines, n) ==
    IF n = 0 THEN 0
    ELSE IF IsErrorLine(lines[n]) THEN n ELSE LastErrorLine(lines, n - 1)

\* The decoding read every line and accumulated no text.
EndedEmpty ==
    /\ dec.done /\ ~dec.st.aborted
    /\ TextOfLines(dec.lines, Len(dec.lines)) = <<>>

\* C11 as stated: a decoding that ends with an empty text answers 502, with
\* the message of the last a3: line whenever an a3: line was seen, and
\* with the generic empty-response detail otherwise.
C11_AnyErrorLineIsCarried ==
    EndedEmpty =>
       LET n == LastErrorLine(dec.lines, Len(dec.lines))
       IN  /\ dec.result.status = 502
           /\ IF n > 0
              THEN /\ dec.result.detail = "upstream_error"
                   /\ dec.result.message = ErrorMessageOf(dec.lines[n])
              ELSE dec.result.detail = "empty"

\* C11 (amended): a decoding that ends with an empty text answers 502; the
\* detail carries the message of the last a3: line when that message is
\* truthy (a non-empty string, a non-zero number, a non-empty object), and
\* is the generic empty-response detail when no a3: line was seen or the
\* last one's message is empty, null or otherwise falsy; an empty input
\* gives the generic detail.
C11_TruthyErrorIsCarried ==
    /\ EndedEmpty =>
          LET n == LastErrorLine(dec.lines, Len(dec.lines))
          IN  /\ dec.result.status = 502
              /\ IF n > 0 /\ Truthy(ErrorMessageOf(dec.lines[n]))
                 THEN /\ dec.result.detail = "upstream_error"
                      /\ dec.result.message = ErrorMessageOf(dec.lines[n])
                 ELSE /\ dec.result.detail = "empty"
                      /\ dec.result.message = PyNone
    /\ dec.done /\ dec.lines = <<>> =>
          dec.result.status = 502 /\ dec.result.detail = "empty"
    /\ dec.done /\ dec.lines = << <<"a3:", "\"boom\"">> >> =>
          /\ dec.result.status = 502
          /\ dec.result.message = PyStr(<<"b", "o", "o", "m">>)

\* Two a3: lines and no text: the answer carries the second message.
C11_Witness ==
    /\ dec.done
    /\ dec.lines = << <<"a3:", "\"boom\"">>, <<"ad:", "{}">>, <<"a3:", "oops">> >>
    /\ dec.result.status = 502
    /\ dec.result.detail = "upstream_error"
    /\ dec.result.message = PyStr(<<"oops">>)

\* The raw line is an a0: line whose payload is not a JSON string.
IsBadTextLine(raw) ==
    IsTextLine(raw) /\ JsonLoads(Tail(Strip(raw))).t # "str"

\* The lines without the a0: lines whose payload is not a JSON string.
WithoutBadTextLines(lines) == SelectSeq(lines, LAMBDA raw : ~IsBadTextLine(raw))

\* C12: an a0: line whose payload is not a decodable JSON string is skipped
\* and never aborts: the decoding answers what it would answer had these
\* lines been absent, and every line is read.
C12_BadTextLineIsSkipped ==
    dec.done =>
       /\ dec.result = DecodeResult(DecodeBody(WithoutBadTextLines(dec.lines)))
       /\ dec.st.response_text = TextOfLines(dec.lines, Len(dec.lines))

\* A chat-completion request is rejected by the dependency in this step.
Rejected == nreq' = nreq + 1 /\ req' = req

\* Header h lacks the Bearer prefix, or its stripped key is no key of the
\* configuration.
Unauthenticated(h) ==
    \/ h = <<>>
    \/ h[1] # "Bearer "
    \/ \A i \in 1..Len(api_keys) : Strip(Tail(h)) # <<api_keys[i].key>>

\* C13: a request whose Authorization value lacks the Bearer prefix or
\* whose stripped key matches no key record is answered 401 and changes no
\* rate window, no session and no usage counter; a request is rejected
\* only for that or for its rate limit, and an admitted request is counted
\* in the window of its key.
C13_UnauthenticatedChangesNothing ==
    [][ /\ Rejected /\ Unauthenticated(resp'.header) =>
              /\ resp'.status = 401
              /\ UNCHANGED << api_key_usage, chat_sessions, usage_stats,
                              model_usage_stats >>
        /\ Rejected => Unauthenticated(resp'.header) \/ resp'.status = 429
        /\ nreq' = nreq + 1 /\ ~Rejected =>
              \E s \in Slots :
                 /\ req[s].pc = "idle" /\ req'[s].pc = "admitted"
                 /\ \E i \in 1..Len(api_keys) : req'[s].key_data = api_keys[i]
                 /\ Len(api_key_usage'[req'[s].key_data.key]) =
                       Len(api_key_usage[req'[s].key_data.key]) + 1
      ]_vars

\* A header without the prefix was answered 401 after two requests of the
\* same key had been admitted: the window still holds these two.
C13_Witness ==
    /\ resp.status = 401
    /\ resp.header = <<"sk2">>
    /\ Len(api_key_usage["sk2"]) = 2

\* The publicName values of the catalog.
PublicNames == {models[i].publicName : i \in 1..Len(models)}

\* C14: a completion request without a model or with no messages is
\* answered 400, one whose model is no publicName of the catalog 404, one
\* whose last message has empty content 400, and none of them reaches the
\* upstream: every request that is sent names a catalog model and has a
\* non-empty prompt.
C14_BadRequestsAreNotSent ==
    [][ \A s \in Slots :
          /\ Ends(s) /\ req[s].pc = "admitted" /\ resp'.body.valid =>
                LET b == resp'.body
                IN  /\ b.model = None \/ b.messages = <<>> => resp'.status = 400
                    /\ b.model # None /\ b.messages # <<>> /\ b.model \notin PublicNames
                          => resp'.status = 404
                    /\ ( /\ b.model \in PublicNames /\ b.messages # <<>>
                         /\ b.messages[Len(b.messages)].content = <<>> )
                          => resp'.status = 400
          /\ Sends(s) =>
                /\ req'[s].model \in PublicNames
                /\ req'[s].prompt # <<>>
                /\ req'[s].request.payload.messages # <<>>
      ]_vars

\* An unknown model was answered 404 while no request is in flight.
C14_Witness ==
    /\ resp.status = 404
    /\ resp.body.model = "mX"
    /\ resp.body.messages # <<>>
    /\ \A s \in Slots : req[s].pc # "posted"

C16_ProxyActivePrefersJobQueue ==
    [][ \A s \in Slots :
          /\ ( /\ proxy.active
               /\ req[s].pc = "admitted"
               /\ req'[s].pc # "admitted" )
                => /\ ~Sends(s)
                   /\ resp'.status \notin {400, 404} => proxy'.job.phase = "queued"
          /\ ( /\ Ends(s) /\ req[s].pc = "posted"
               /\ resp'.status \in {502, 504} )
                => proxy.job.phase # None
      ]_vars

\* The signals and records of the job are in their order: picked up before
\* status, status recorded before a line is enqueued or consumed, the
\* sentinel enqueued before the done signal.
JobOrdered ==
    /\ proxy.job.status_event => proxy.job.picked_up_event
    /\ proxy.job.status_event => proxy.job.status_code # 0
    /\ proxy.sent # <<>> /\ proxy.sent[1] # QueueSentinel => proxy.job.status_event
    /\ proxy.consumed # <<>> => proxy.job.status_event
    /\ proxy.job.done_event =>
          \E i \in 1..Len(proxy.sent) : proxy.sent[i] = QueueSentinel
    /\ proxy.job.phase \in {"fetch", "streaming"} => proxy.job.picked_up_event
    /\ proxy.job.phase = "streaming" => proxy.job.status_event

\* C17: the phase of a job never moves backwards along queued, picked_up,
\* fetch, streaming, done or error; the picked-up signal is set no later than
\* the status signal, the status is recorded before a line is consumed, the
\* sentinel is enqueued before the done signal; and after done or error the
\* phase does not change and nothing more is enqueued.
C17_JobPhasesMoveForward ==
    [][ /\ PhaseRank(proxy'.job.phase) >= PhaseRank(proxy.job.phase)
        /\ Terminal(proxy.job.phase) =>
              /\ proxy'.job.phase = proxy.job.phase
              /\ proxy'.sent = proxy.sent
        /\ JobOrdered'
      ]_vars

\* A job went through every phase to done, and its handler read a line and
\* answered.
C17_Witness ==
    /\ proxy.job.phase = "done" /\ proxy.job.done_event
    /\ Len(proxy.claims) = 1
    /\ proxy.consumed # <<>>
    /\ proxy.handler.pc = "answered"

\* The handler waits on its job.
HandlerWaits == proxy.handler.pc \in {"wait_picked_up", "wait_status", "draining"}

\* The handler has returned: an answer, a failure or a cancellation.
HandlerReturned == proxy.handler.pc \in {"answered", "failed", "cancelled"}

\* C18: a handler that created a job and waits on it eventually returns,
\* whatever the agent does or leaves undone; and when the agent never claimed
\* the job, or never reported a status, the handler returns a failure
\* answered 504 or 502 (ProxyUnavailable) or was cancelled.
C18_HandlerAlwaysReturns ==
    /\ HandlerWaits ~> HandlerReturned
    /\ [](HandlerReturned /\ ~proxy.job.status_event =>
            \/ proxy.handler.pc = "cancelled"
            \/ /\ proxy.handler.pc = "failed"
               /\ proxy.handler.result.status \in {502, 504}
               /\ proxy.handler.result.detail = "proxy_unavailable")

\* The agent never claimed the job, and the handler's wait on the picked-up
\* signal ran out: the request failed with 504.
C18_Witness ==
    /\ proxy.claims = <<>>
    /\ ~proxy.job.picked_up_event
    /\ proxy.handler.pc = "failed"
    /\ proxy.handler.result.status = 504
    /\ proxy.handler.result.detail = "proxy_unavailable"

\* The handler gave its job up: it was cancelled, timed out or failed.
HandlerGaveUp == proxy.handler.pc \in {"cancelled", "failed"}

\* C19: once the handler of a job was cancelled or timed out, the job is in
\* a terminal phase (error, unless the agent had finished it), not queued,
\* picked_up, fetch or streaming; and from then on the agent enqueues nothing.
C19_OrphanedJobIsMarkedError ==
    [][ /\ HandlerGaveUp' =>
              /\ Terminal(proxy'.job.phase)
              /\ ~Terminal(proxy.job.phase) /\ ~HandlerGaveUp =>
                    proxy'.job.phase = "error"
        /\ HandlerGaveUp =>
              /\ proxy'.sent = proxy.sent
              /\ proxy'.job.lines_queue = proxy.job.lines_queue
      ]_vars

\* The handler was cancelled while its job was claimed and not finished: the
\* job is marked error as an orphan.
C19_Witness ==
    /\ proxy.handler.pc = "cancelled"
    /\ proxy.job.picked_up_event
    /\ proxy.job.phase = "error"
    /\ proxy.job.error = "orphaned"
    /\ ~proxy.job.done_event

\* The lines of a sequence of queue items: everything but the sentinel.
LinesOf(items) == SelectSeq(items, LAMBDA item : item # QueueSentinel)

\* C20: a job is claimed by at most one agent; what the handler has consumed,
\* followed by the lines still queued, is the agent's line sequence, so each
\* line is consumed once and in order; and a handler that answered stopped at
\* the sentinel with every line consumed, and its answer is the decoding of
\* the agent's whole line sequence.
C20_JobConsumedOnce ==
    /\ Len(proxy.claims) <= 1
    /\ proxy.consumed \o LinesOf(proxy.job.lines_queue) = LinesOf(proxy.sent)
    /\ proxy.handler.pc = "answered" =>
          /\ proxy.job.lines_queue = <<>>
          /\ proxy.consumed = LinesOf(proxy.sent)
          /\ proxy.sent[Len(proxy.sent)] = QueueSentinel
          /\ proxy.handler.st = DecodeBody(LinesOf(proxy.sent))
          /\ proxy.handler.result =
                ProxyResult(proxy.job.status_code, DecodeBody(LinesOf(proxy.sent)))

\* One agent claimed the job and streamed two text lines with status 200;
\* the handler answered 200 with their text in order.
C20_Witness ==
    /\ Len(proxy.claims) = 1
    /\ proxy.handler.pc = "answered"
    /\ proxy.job.status_code = 200
    /\ proxy.sent = << <<"a0:", "\"Yo \"">>, <<"a0:", "\"Hi\"">>, QueueSentinel >>
    /\ proxy.handler.result.status = 200
    /\ proxy.handler.result.content = <<"Y", "o", " ", "H", "i">>

(***************************************************************************)
(* The completion object.                                                  *)
(***************************************************************************)
\* C21: a request whose body has stream: true and that succeeds is answered
\* with a stream of chunks, not with one completion object.
C21_StreamRequestIsStreamed ==
    resp.stream /\ resp.status = 200 => resp.final.object = "chat.completion.chunk"

\* Slot s is answered 200 by this step.
Succeeds(s) == Ends(s) /\ req[s].pc = "posted" /\ resp'.status = 200

\* The parts of a completion object that do not depend on the text: one
\* choice, role assistant, finish_reason stop, prompt_tokens the length of
\* the prompt, total_tokens the sum, and the conversation_id under which the
\* session is recorded.
CompletionFrame(s) ==
    LET f == resp'.final
    IN  /\ f.object = "chat.completion"
        /\ Len(f.choices) = 1
        /\ f.choices[1].message.role = "assistant"
        /\ f.choices[1].finish_reason = "stop"
        /\ f.usage.prompt_tokens = Len(req[s].prompt)
        /\ f.usage.total_tokens = f.usage.prompt_tokens + f.usage.completion_tokens
        /\ f.conversation_id = req[s].conversation_id
        /\ resp'.conversation_id = f.conversation_id
        /\ chat_sessions'[req[s].api_key_str][f.conversation_id] # NoneSession

\* C26 as stated: on every successful completion, completion_tokens is the
\* character count of the text returned in the message content.
C26_CompletionTokensCountContent ==
    [][ \A s \in Slots :
          Succeeds(s) =>
             /\ CompletionFrame(s)
             /\ resp'.final.usage.completion_tokens =
                   Len(resp'.final.choices[1].message.content)
      ]_vars

\* C26 amended: completion_tokens is the character count of the decoded
\* text before it is trimmed, the content is that text trimmed, and the two
\* counts agree exactly when the text has no blank at either end.
C26_CompletionTokensCountRawText ==
    [][ \A s \in Slots :
          Succeeds(s) =>
             LET text == DecodeBody(resp'.outcome.lines).response_text
                 f == resp'.final
             IN  /\ CompletionFrame(s)
                 /\ f.choices[1].message.content = Strip(text)
                 /\ f.usage.completion_tokens = Len(text)
                 /\ f.usage.completion_tokens >= Len(f.choices[1].message.content)
                 /\ (f.usage.completion_tokens = Len(f.choices[1].message.content))
                       <=> (text = Strip(text))
      ]_vars

\* A text with a trailing blank was answered 200: the content is trimmed,
\* completion_tokens counts the blank.
C26_Witness ==
    /\ resp.status = 200
    /\ resp.final.choices[1].message.content = <<"Y", "o">>
    /\ resp.final.usage.completion_tokens = 3
    /\ resp.final.usage.prompt_tokens = 2
    /\ resp.final.usage.total_tokens = 5

(***************************************************************************)
(* Credential acquisition and the configuration document.                  *)
(***************************************************************************)
\* Task t takes the step from pc a to pc b.
AcqMoves(t, a, b) == acq.tasks[t].pc = a /\ acq'.tasks[t].pc = b

\* C22: get_initial_data() never raises to its caller; when the challenge
\* wait fails it returns with cf_clearance and the catalog as they were;
\* without a cf_clearance cookie the stored cf_clearance keeps its value;
\* without a match of the catalog pattern (or with a match that does not
\* parse) the stored catalog keeps its value; and an exception of any other
\* await changes neither.
C22_AcquisitionNeverRaises ==
    [][ \A t \in AcqTasks :
          /\ acq'.tasks[t].pc # "raised"
          /\ AcqMoves(t, "challenge", "returned") =>
                /\ acq'.tasks[t].why = "challenge"
                /\ cf_clearance' = cf_clearance
                /\ models' = models
          /\ AcqMoves(t, "cookies", "content")
               /\ acq'.tasks[t].cf_clearance_cookie = NoneCookie =>
                cf_clearance' = cf_clearance
          /\ AcqMoves(t, "content", "returned")
               /\ acq'.tasks[t].why \in {"catalog", "exception"} =>
                models' = models
          /\ acq'.tasks[t].why = "exception" /\ acq.tasks[t].why # "exception" =>
                /\ acq'.tasks[t].pc = "returned"
                /\ cf_clearance' = cf_clearance
                /\ models' = models
      ]_vars

\* A stored clearance and the catalog survived a later run that found no
\* cookie and no catalog pattern.
C22_Witness ==
    /\ cf_clearance = "cfA"
    /\ models = SampleModels
    /\ \E t \in AcqTasks :
          /\ acq.tasks[t].pc = "returned"
          /\ acq.tasks[t].cf_clearance_cookie = NoneCookie
          /\ acq.tasks[t].why = "catalog"
          /\ ~acq.tasks[t].match

\* C23: whatever the interleaving of the two get_initial_data() callers,
\* the dashboard's writes and the requests, config.json holds the
\* auth_token, the api_keys entries and the cf_clearance that the operations
\* so far meant to leave: no write of one entry undoes a saved value of
\* another.
C23_NoLostConfigUpdate ==
    /\ auth_token = acq.written.auth_token
    /\ api_keys = acq.written.api_keys
    /\ cf_clearance = acq.written.cf_clearance

\* Both callers were in flight when the dashboard saved a token and a key;
\* one of them then stored a clearance, and all three values are there.
C23_Witness ==
    /\ acq.tasks["startup"].pc = "content"
    /\ acq.tasks["startup"].cf_clearance_cookie # NoneCookie
    /\ acq.tasks["refresh"].pc \in {"navigating", "challenge", "sleeping", "cookies"}
    /\ auth_token = <<"tok2">>
    /\ cf_clearance = "cfB"
    /\ Len(api_keys) = 3 /\ api_keys[3].key = "sk3" /\ api_keys[3].rpm = 1000

(***************************************************************************)
(* Identifiers.                                                            *)
(***************************************************************************)
\* The hexadecimal digits of an identifier: the string without its dashes.
HexDigitsOf(id) == SelectSeq(id, LAMBDA c : c # "-")

\* C24: for every timestamp below 2^48 and every draw, the identifier is 32
\* hexadecimal digits grouped 8-4-4-4-12, the first 12 digits are the
\* timestamp, the 13th is 7, the next three are rand_a, the 17th has its top
\* two bits 10, and the low 62 bits are rand_b.
C24_IdentifierLayout ==
    \A i \in 1..Len(calls) :
       LET id == calls[i].out
           ts == calls[i].args[1]
           ra == calls[i].args[2]
           rb == calls[i].args[3]
           h == HexDigitsOf(id)
           Chars(x) == [k \in 1..Len(x) |-> HexChars[x[k] + 1]]
       IN  calls[i].fn = "uuid7" /\ Len(Significant(ts)) <= 12 =>
             /\ Len(id) = 36 /\ Len(h) = 32
             /\ \A k \in 1..36 : (id[k] = "-") <=> (k \in {9, 14, 19, 24})
             /\ SubSeq(h, 1, 12) = Chars(PadLeft(Significant(ts), 12))
             /\ h[13] = "7"
             /\ SubSeq(h, 14, 16) = Chars(ra)
             /\ h[17] \in {"8", "9", "a", "b"}
             /\ h[17] = HexChars[8 + rb[1] + 1]
             /\ SubSeq(h, 18, 32) = Chars(Tail(rb))

\* An identifier for the largest 48-bit timestamp with all random bits set.
C24_Witness ==
    \E i \in 1..Len(calls) :
       /\ calls[i].fn = "uuid7"
       /\ calls[i].args[1] = [k \in 1..12 |-> 15]
       /\ calls[i].out =
            << "f", "f", "f", "f", "f", "f", "f", "f", "-", "f", "f", "f", "f", "-",
               "7", "f", "f", "f", "-", "b", "f", "f", "f", "-",
               "f", "f", "f", "f", "f", "f", "f", "f", "f", "f", "f", "f" >>

TimestampOf(id) ==
    LET h == SubSeq(HexDigitsOf(id), 1, 12)
    IN  [k \in 1..12 |->
           CHOOSE d \in 0..15 : HexChars[d + 1] = h[k]]

TextEntries(ms) == SelectSeq(ms, LAMBDA m : m.text = "true")

\* C27 as stated: the listing has one item per text-output entry of the
\* catalog, in catalog order, with id the publicName, object "model" and
\* owned_by the organization.
C27_ListsEveryTextModel ==
    \A i \in 1..Len(calls) :
       calls[i].fn = "list_models" =>
          LET text_models == TextEntries(calls[i].args[1])
              data == calls[i].out
          IN  /\ Len(data) = Len(text_models)
              /\ \A k \in 1..Len(data) :
                    /\ data[k].id = text_models[k].publicName
                    /\ data[k].object = "model"
                    /\ data[k].owned_by = text_models[k].organization

\* C27 amended: the listing has one item per text-output entry with a
\* non-empty publicName, in catalog order, with id the publicName, object
\* "model" and owned_by the organization, or "lmarena" for an entry without
\* one; no other entry appears.
C27_ListsNamedTextModels ==
    \A i \in 1..Len(calls) :
       calls[i].fn = "list_models" =>
          LET named == SelectSeq(TextEntries(calls[i].args[1]),
                                 LAMBDA m : m.publicName \notin {None, ""})
              data == calls[i].out
          IN  /\ Len(data) = Len(named)
              /\ \A k \in 1..Len(data) :
                    /\ data[k].id = named[k].publicName
                    /\ data[k].object = "model"
                    /\ data[k].owned_by =
                          IF named[k].organization = None THEN "lmarena"
                          ELSE named[k].organization

\* A catalog of a text model without a name and one without an
\* organization: the listing has the second only, owned by lmarena.
C27_Witness ==
    \E i \in 1..Len(calls) :
       /\ calls[i].fn = "list_models"
       /\ Len(calls[i].args[1]) = 2
       /\ calls[i].args[1][1].publicName = None
       /\ calls[i].args[1][2].organization = None
       /\ Len(calls[i].out) = 1
       /\ calls[i].out[1].id = "m2"
       /\ calls[i].out[1].owned_by = "lmarena"

\* The calls of one function in the history.
CallsOf(fn) == {i \in 1..Len(calls) : calls[i].fn = fn}

\* C28: origin-candidates returns exactly two entries, the detected origin
\* first and its sibling alias second (arena.ai gives arena.ai then
\* lmarena.ai, lmarena.ai the reverse); detect-origin gives the canonical
\* production origin for a null, blank or about:blank input and the bare
\* https form for a www.-prefixed host of the family; two calls on the same
\* URL return the same.
C28_OriginCandidates ==
    \A i \in CallsOf("origin") :
       LET url == calls[i].args[1]
           out == calls[i].out
       IN  /\ Len(out.candidates) = 2
           /\ out.candidates[1] = out.detected
           /\ out.candidates[2] # out.detected
           /\ url.kind # "url" => out.detected = CanonicalOrigin
           /\ (url.kind = "url" /\ url.host[Len(url.host) - 1] = "arena") =>
                  out.candidates = <<AliasOrigin, CanonicalOrigin>>
           /\ (url.kind = "url" /\ url.host[Len(url.host) - 1] = "lmarena") =>
                  out.candidates = <<CanonicalOrigin, AliasOrigin>>
           /\ (url.kind = "url" /\ url.host[1] = "www") =>
                  out.detected.host = Tail(url.host)
           /\ \A j \in CallsOf("origin") :
                  calls[j].args = calls[i].args => calls[j].out = out

\* Calls on https://www.arena.ai/foo and on about:blank: arena.ai then
\* lmarena.ai for the first, lmarena.ai detected for the second.
C28_Witness ==
    \E i, j \in CallsOf("origin") :
       /\ calls[i].args[1].host = <<"www", "arena", "ai">>
       /\ calls[i].out.candidates = <<AliasOrigin, CanonicalOrigin>>
       /\ calls[j].args[1].kind = "about"
       /\ calls[j].out.detected = CanonicalOrigin

\* The cookies of a context in query order: the detected origin's, then
\* its sibling's.
QueriedCookies(ctx, page_url) ==
    LET origins == ArenaOriginCandidates(page_url)
    IN  ctx[origins[1]] \o ctx[origins[2]]

\* C29: the cookies read back from a context are deduplicated by (name,
\* domain, path) over the origin candidates in candidate order: no two
\* returned cookies share a key, each returned cookie is the first one of
\* its key in query order, and every key seen at an origin is returned.
C29_FirstSeenCookieWins ==
    \A i \in CallsOf("context_cookies") :
       LET seen == QueriedCookies(calls[i].args[1], calls[i].args[2])
           out == calls[i].out
       IN  /\ \A k, l \in 1..Len(out) : SameKey(out[k], out[l]) => k = l
           /\ \A k \in 1..Len(out) :
                 \E n \in 1..Len(seen) :
                    /\ seen[n] = out[k]
                    /\ \A e \in 1..(n - 1) : ~SameKey(seen[e], out[k])
           /\ \A n \in 1..Len(seen) :
                 \E k \in 1..Len(out) : SameKey(out[k], seen[n])

\* A page on lmarena.ai whose context has a=v1 and b there and a=v2, c=c1,
\* a on another path and c=c2 at arena.ai: a is v1, c is c1, four cookies.
C29_Witness ==
    \E i \in CallsOf("context_cookies") :
       /\ DetectArenaOrigin(calls[i].args[2]) = CanonicalOrigin
       /\ Len(calls[i].args[1][CanonicalOrigin]) = 2
       /\ Len(calls[i].args[1][AliasOrigin]) = 4
       /\ Len(calls[i].out) = 4
       /\ calls[i].out[1].value = "v1"
       /\ \E k \in 1..4 : calls[i].out[k].value = "c1"
       /\ \A k \in 1..4 : calls[i].out[k].value \notin {"v2", "c2"}

\* C30: the auth-token cookie specs are one per origin candidate, in
\* candidate order, each with the given value and path /; the
\* provisional-user-id specs are twice as many: for each origin candidate
\* exactly one scoped by that exact URL and exactly one scoped by its
\* wildcard parent domain.
C30_CookieSpecCounts ==
    \A i \in CallsOf("cookie_specs") :
       LET value == calls[i].args[1]
           origins == ArenaOriginCandidates(calls[i].args[2])
           auth == calls[i].out.auth
           prov == calls[i].out.provisional
       IN  /\ Len(auth) = Len(origins)
           /\ \A k \in 1..Len(auth) :
                 /\ auth[k].url = origins[k]
                 /\ auth[k].name = "arena-auth-prod-v1"
                 /\ auth[k].value = value
                 /\ auth[k].path = "/"
           /\ Len(prov) = 2 * Len(origins)
           /\ \A k \in 1..Len(prov) :
                 /\ prov[k].name = "provisional_user_id"
                 /\ prov[k].value = value
                 /\ prov[k].path = "/"
           /\ \A o \in 1..Len(origins) :
                 /\ Cardinality({k \in 1..Len(prov) :
                        prov[k].url = origins[o] /\ prov[k].domain = <<>>}) = 1
                 /\ Cardinality({k \in 1..Len(prov) :
                        /\ prov[k].url = NoneOrigin
                        /\ prov[k].domain = <<".">> \o origins[o].host}) = 1

\* Specs built for a page on arena.ai: two auth specs, arena.ai first, and
\* four provisional-user-id specs, one of them for the domain .lmarena.ai.
C30_Witness ==
    \E i \in CallsOf("cookie_specs") :
       /\ calls[i].args[2].host = <<"arena", "ai">>
       /\ Len(calls[i].out.auth) = 2
       /\ calls[i].out.auth[1].url = AliasOrigin
       /\ calls[i].out.auth[2].url = CanonicalOrigin
       /\ Len(calls[i].out.provisional) = 4
       /\ \E k \in 1..4 :
             calls[i].out.provisional[k].domain = <<".", "lmarena", "ai">>

\* C31: the Turnstile fallback stops at the first step that applies: a
\* widget without content frame and without bounding box gets the
\* element's own click exactly once, no mouse click, and the result is
\* true; with a bounding box (and no frame) there is exactly one mouse
\* click, at the centre of the box, and no element click; without a widget
\* the result is false and nothing is clicked.
C31_TurnstileStepsInOrder ==
    \A i \in CallsOf("click_turnstile") :
       LET page == calls[i].args[1]
           out == calls[i].out
       IN  /\ (page.widget /\ ~page.frame /\ page.box = <<>>) =>
                 out.ok /\ out.clicked = 1 /\ out.mouse_clicks = <<>>
           /\ (page.widget /\ ~page.frame /\ page.box # <<>>) =>
                 /\ out.ok
                 /\ out.clicked = 0
                 /\ Len(out.mouse_clicks) = 1
                 /\ 2 * out.mouse_clicks[1][1] = 2 * page.box[1] + page.box[3]
                 /\ 2 * out.mouse_clicks[1][2] = 2 * page.box[2] + page.box[4]
           /\ ~page.widget =>
                 ~out.ok /\ out.clicked = 0 /\ out.mouse_clicks = <<>>
           /\ out.clicked + Len(out.mouse_clicks) <= 1

\* A call on a widget with neither frame nor box, and one on a widget with
\* the box (10, 20, 30, 40): an element click, then a mouse click at (25, 40).
C31_Witness ==
    \E i, j \in CallsOf("click_turnstile") :
       /\ calls[i].args[1] = TurnstilePage(TRUE, FALSE, <<>>)
       /\ calls[i].out = TurnstileOutcome(TRUE, 1, <<>>)
       /\ calls[j].args[1] = TurnstilePage(TRUE, FALSE, <<10, 20, 30, 40>>)
       /\ calls[j].out.mouse_clicks = << <<25, 40>> >>

\* C32: a timestamp exactly 60 seconds old still counts against the limit:
\* a request is admitted only when fewer than N requests of its key were
\* admitted in the 60 seconds before it, the one 60 seconds ago included.
C32_CutoffTimestampCounts ==
    hist.lastcheck.status = 200 =>
       LET k == hist.lastcheck.key
           earlier == Len(hist.admitted[k]) - 1
       IN  Cardinality({i \in 1..earlier :
                           hist.lastcheck.time - hist.admitted[k][i] <= RateWindow})
              < LimitOf(k)

\* The lines of a body that are not a3: lines.
WithoutErrorLines(lines) ==
    SelectSeq(lines, LAMBDA raw : Strip(raw) = <<>> \/ Strip(raw)[1] # "a3:")

\* Slot s's upstream call returns, in this step, a 2xx body with an a3:
\* line whose a0: lines gave a non-empty text, no line raising.
AnswersTextWithErrorLine(s) ==
    /\ Ends(s) /\ req[s].pc = "posted"
    /\ resp'.outcome.kind = "response" /\ IsSuccess(resp'.outcome.status_code)
    /\ WithoutErrorLines(resp'.outcome.lines) # resp'.outcome.lines
    /\ DecodeBody(WithoutErrorLines(resp'.outcome.lines)).response_text # <<>>
    /\ ~DecodeBody(resp'.outcome.lines).aborted

\* C33: an a3: line is only an error candidate: when the a0: lines of the
\* body gave a non-empty text (and no line raised), the exchange is
\* answered 200 with the trimmed text, the same answer as for the body
\* without its a3: lines, whether the a3: line comes before or after the
\* text; the error message is not in the answer, and the session is stored
\* with the assistant id of this exchange.
C33_ErrorLineLosesToText ==
    [][ \A s \in Slots :
          AnswersTextWithErrorLine(s) =>
             LET clean == DecodeBody(WithoutErrorLines(resp'.outcome.lines))
             IN  /\ resp'.status = 200
                 /\ resp'.content = Strip(clean.response_text)
                 /\ resp'.final.choices[1].message.content = resp'.content
                 /\ resp'.message = PyNone
                 /\ resp'.detail = None
                 /\ chat_sessions'[req[s].api_key_str][req[s].conversation_id]
                        .last_message_id = req[s].model_msg_id
      ]_vars

\* The body a3:"boom", a0:"Hi" was answered 200 with Hi, and the session
\* of the conversation is stored.
C33_Witness ==
    /\ resp.status = 200
    /\ resp.outcome.lines = << Line("a3:", "\"boom\""), Line("a0:", "\"Hi\"") >>
    /\ resp.content = <<"H", "i">>
    /\ chat_sessions["sk2"]["c1"] # NoneSession

\* C34: each stored session's last_message_id is an assistant message id
\* that was sent in a payload addressed to the upstream conversation id the
\* session stores.
C34_SessionIdsBelongTogether ==
    \A k \in KeyStrs, c \in ConvIds :
       chat_sessions[k][c] # NoneSession =>
          [sid |-> chat_sessions[k][c].conversation_id,
           mid |-> chat_sessions[k][c].last_message_id] \in hist.sent

\* Slot s's handler posts, in this step, a request whose conversation id it
\* generated (the body had none).
PostsWithoutConversationId(s) ==
    /\ req[s].pc = "admitted" /\ req'[s].pc = "posted"
    /\ req'[s].conversation_id \in SampleUuid4

\* Every session but the one of key k and conversation c is unchanged.
OtherSessionsUnchanged(k, c) ==
    \A k2 \in KeyStrs, c2 \in ConvIds :
       (k2 # k \/ c2 # c) => chat_sessions'[k2][c2] = chat_sessions[k2][c2]

\* C35 as stated: a request without conversation_id is always sent to
\* create-evaluation, and on success it adds a registry entry that was not
\* there, under the generated id it returns, and changes no other entry.
C35_NoIdNeverContinues ==
    [][ \A s \in Slots :
          /\ PostsWithoutConversationId(s) =>
                /\ req'[s].request.url.endpoint = "create-evaluation"
                /\ req'[s].session = NoneSession
          /\ (Succeeds(s) /\ req[s].conversation_id \in SampleUuid4) =>
                /\ chat_sessions[req[s].api_key_str][req[s].conversation_id]
                      = NoneSession
                /\ chat_sessions'[req[s].api_key_str][req[s].conversation_id]
                      # NoneSession
                /\ resp'.conversation_id = req[s].conversation_id
                /\ OtherSessionsUnchanged(req[s].api_key_str, req[s].conversation_id)
      ]_vars

\* C35 amended: a request without conversation_id gets a generated id; when
\* the key's registry has no entry under that id, it is sent to
\* create-evaluation with a session id generated now, and otherwise it
\* continues the stored session; on success the entry under the generated
\* id holds the assistant id of this exchange, the response returns the
\* id, and no other entry changes.
C35_NoIdContinuesOnlyOnCollision ==
    [][ \A s \in Slots :
          /\ PostsWithoutConversationId(s) =>
                LET r == req'[s]
                    stored == chat_sessions[r.api_key_str][r.conversation_id]
                IN  /\ r.session = stored
                    /\ stored = NoneSession =>
                          /\ r.request.url.endpoint = "create-evaluation"
                          /\ r.session_id.time = now * 1000
                          /\ r.session_id.ver = UuidVersion
                          /\ r.request.payload.id = r.session_id
                    /\ stored # NoneSession =>
                          /\ r.request.url.endpoint = "post-to-evaluation"
                          /\ r.request.url.sid = stored.conversation_id
          /\ (Succeeds(s) /\ req[s].conversation_id \in SampleUuid4) =>
                /\ chat_sessions'[req[s].api_key_str][req[s].conversation_id]
                      .last_message_id = req[s].model_msg_id
                /\ resp'.conversation_id = req[s].conversation_id
                /\ OtherSessionsUnchanged(req[s].api_key_str, req[s].conversation_id)
      ]_vars

\* A request without conversation_id was answered 200 under a generated id
\* while the session of conversation c1 of the same key is stored.
C35_Witness ==
    /\ resp.status = 200
    /\ resp.conversation_id \in SampleUuid4
    /\ ~resp.followup
    /\ chat_sessions["sk2"][resp.conversation_id] # NoneSession
    /\ chat_sessions["sk2"]["c1"] # NoneSession

\* C36: sessions are isolated per API key.  A step of a request of key k
\* changes no session of another key; the session the handler reads is the
\* one stored under k, and a follow-up is addressed to k's stored upstream
\* conversation id with the parent id k's session stores, whatever another
\* key has stored under the same conversation id.
C36_SessionsIsolatedPerKey ==
    [][ /\ (req[1].pc = "admitted" /\ req'[1].pc = "posted") =>
             LET r == req'[1]
                 own == chat_sessions[req[1].key_data.key][r.conversation_id]
                 nodes == r.request.payload.messages
             IN  /\ r.api_key_str = req[1].key_data.key
                 /\ r.session = own
                 /\ chat_sessions' = chat_sessions
                 /\ own # NoneSession =>
                       /\ r.request.url.sid = own.conversation_id
                       /\ r.request.payload.id = own.conversation_id
                       /\ nodes[1].parentMessageIds = <<own.last_message_id>>
                       /\ \A n \in 1..Len(nodes) :
                             nodes[n].evaluationSessionId = own.conversation_id
                 /\ own = NoneSession =>
                       r.request.url.endpoint = "create-evaluation"
        /\ req[1].pc = "posted" =>
             \A k \in KeyStrs \ {req[1].api_key_str} :
                chat_sessions'[k] = chat_sessions[k]
        /\ req[1].pc \notin {"posted"} => chat_sessions' = chat_sessions
      ]_vars

\* Both keys have a session under c1, on different upstream conversations,
\* and key sk2's follow-up on c1 is in flight, addressed to sk2's own.
C36_Witness ==
    /\ chat_sessions["sk1"]["c1"] # NoneSession
    /\ chat_sessions["sk2"]["c1"] # NoneSession
    /\ chat_sessions["sk1"]["c1"].conversation_id
          # chat_sessions["sk2"]["c1"].conversation_id
    /\ req[1].pc = "posted"
    /\ req[1].api_key_str = "sk2"
    /\ req[1].conversation_id = "c1"
    /\ req[1].request.url.sid = chat_sessions["sk2"]["c1"].conversation_id

\* The key string of an Authorization header with the Bearer prefix.
KeyOfHeader(h) == Strip(Tail(h))[1]

\* ts has the timestamps of old, in order, and no other.
IsSubsequenceByPruning(ts, old) ==
    \E t \in 0..MaxTime : ts = SelectSeq(old, LAMBDA x : x >= t)

\* C37: a request rejected with 401 or 429 appends no timestamp to any rate
\* window (401 changes none at all, 429 at most prunes its key's); an
\* admitted request appends the current time to its key's window; what
\* the handler does afterwards, whatever status it ends with, leaves every
\* window as it is; and a check for one key leaves the other keys' windows
\* unchanged.
C37_RejectedRequestsLeaveWindows ==
    [][ /\ (req[1].pc = "idle" /\ nreq' = nreq + 1) =>
             /\ resp'.status = 401 /\ req'[1].pc = "idle" =>
                   api_key_usage' = api_key_usage
             /\ resp'.status = 429 /\ req'[1].pc = "idle" =>
                   \A k \in KeyStrs :
                      /\ IsSubsequenceByPruning(api_key_usage'[k], api_key_usage[k])
                      /\ k # KeyOfHeader(resp'.header) =>
                            api_key_usage'[k] = api_key_usage[k]
             /\ req'[1].pc = "admitted" =>
                   LET key == req'[1].key_data.key
                   IN  /\ Len(api_key_usage'[key]) >= 1
                       /\ api_key_usage'[key][Len(api_key_usage'[key])] = now
                       /\ IsSubsequenceByPruning(
                              SubSeq(api_key_usage'[key], 1,
                                     Len(api_key_usage'[key]) - 1),
                              api_key_usage[key])
                       /\ \A k \in KeyStrs \ {key} :
                              api_key_usage'[k] = api_key_usage[k]
        /\ req[1].pc \in {"admitted", "posted"} => api_key_usage' = api_key_usage
      ]_vars

\* Key sk1 (limit 1): its first request was admitted and then failed (no
\* session is stored), its second is rejected with 429; its window holds
\* the first request's time only and sk2's window is empty.
C37_Witness ==
    /\ nreq = 2
    /\ resp.status = 429
    /\ api_key_usage["sk1"] = <<0>>
    /\ api_key_usage["sk2"] = <<>>
    /\ \A c \in ConvIds : chat_sessions["sk1"][c] = NoneSession

\* C38 as stated: a completion answered 200 has a non-empty message
\* content (a text of whitespace only is answered like an empty one).
C38_OkHasContent ==
    resp.status = 200 => resp.final.choices[1].message.content # <<>>

\* Slot s's upstream call returns, in this step, a 2xx body no line of
\* which raises.
AnswersDecodedBody(s) ==
    /\ Ends(s) /\ req[s].pc = "posted"
    /\ resp'.outcome.kind = "response" /\ IsSuccess(resp'.outcome.status_code)
    /\ ~DecodeBody(resp'.outcome.lines).aborted

\* C38 amended: the answer is 502 exactly when the decoded text is empty
\* before trimming, and then no session changes; any other text, one of
\* whitespace only included, is answered 200 with the trimmed text as
\* content (empty for whitespace only) and the session is created or
\* advanced.
C38_OnlyEmptyTextIsRejected ==
    [][ \A s \in Slots :
          AnswersDecodedBody(s) =>
             LET text == DecodeBody(resp'.outcome.lines).response_text
                 k == req[s].api_key_str
                 c == req[s].conversation_id
             IN  /\ text = <<>> =>
                       resp'.status = 502 /\ chat_sessions' = chat_sessions
                 /\ text # <<>> =>
                       /\ resp'.status = 200
                       /\ resp'.final.choices[1].message.content = Strip(text)
                       /\ (resp'.final.choices[1].message.content = <<>>)
                             <=> (\A i \in 1..Len(text) : IsSpace(text[i]))
                       /\ chat_sessions'[k][c].last_message_id = req[s].model_msg_id
      ]_vars

\* The body a0:" " was answered 200 with an empty content, and the session
\* holds the assistant id of that exchange.
C38_Witness ==
    /\ resp.status = 200
    /\ resp.outcome.lines = << Line("a0:", "\" \"") >>
    /\ resp.final.choices[1].message.content = <<>>
    /\ chat_sessions["sk2"]["c1"] # NoneSession
    /\ chat_sessions["sk2"]["c1"].last_message_id = hist.acked["sk2"]["c1"]


\* The four administrative operations of the dashboard.
AdminOps == {"update-auth-token", "create-key", "delete-key", "refresh-tokens"}

\* C39: an administrative request (update-auth-token, create-key,
\* delete-key, refresh-tokens) whose cookie names no dashboard session
\* changes neither the configuration (token, keys, clearance, counters), nor
\* the model catalog, nor the state of get_initial_data(), nor the sessions;
\* dashboard_sessions grows only by the id issued to a login with the
\* configured password and shrinks only by a logout, after which the
\* cookie of the logout names no session; a login with another password
\* issues none.
C39_AdminNeedsDashboardSession ==
    [][ /\ (hist'.dash # hist.dash /\ hist'.dash.op \in AdminOps)
            => UNCHANGED << api_keys, auth_token, cf_clearance, models,
                            usage_stats, model_usage_stats, acq,
                            dashboard_sessions >>
        /\ (dashboard_sessions' # dashboard_sessions)
            => \/ /\ hist'.dash.op = "login"
                  /\ hist'.dash.password = ConfigPassword
                  /\ dashboard_sessions' =
                        dashboard_sessions \cup {hist'.dash.cookie}
               \/ /\ hist'.dash.op = "logout"
                  /\ dashboard_sessions' =
                        dashboard_sessions \ {hist'.dash.cookie}
        /\ (hist'.dash # hist.dash /\ hist'.dash.op = "logout")
            => hist'.dash.cookie \notin dashboard_sessions'
        /\ ( /\ hist'.dash # hist.dash
             /\ hist'.dash.op = "login"
             /\ hist'.dash.password # ConfigPassword )
            => /\ hist'.dash.cookie = None
               /\ UNCHANGED dashboard_sessions ]_vars

\* Session s1 wrote the token and logged out; its cookie was then refused.
C39_Witness ==
    /\ hist.dash.op = "update-auth-token"
    /\ hist.dash.cookie = "s1"
    /\ dashboard_sessions = {}
    /\ auth_token = <<"tok2">>

====
